---- MODULE Spec2Model ----
(***************************************************************************)
(* Model of the manuscript extraction pipeline of JBSHeditor.              *)
(*                                                                         *)
(*  Part I  - parseManuscript (src/unnamed/part_003:151-252): the nested   *)
(*            model/attempt loop with its retry, repair and fallback       *)
(*            paths.  One action per segment between two await points.     *)
(*  Part II - attemptJsonRepair (src/unnamed/part_003:57-105) applied to   *)
(*            backend output that was cut off in mid-stream.               *)
(***************************************************************************)
EXTENDS Integers, Sequences, FiniteSets, Bags, TLC

(***************************************************************************)
(* State                                                                   *)
(***************************************************************************)
\* parseManuscript
VARIABLES
  pc,         \* "loop" | "calling" | "sleeping" | "returned" | "rejected"
  modelIdx,   \* index of modelName in modelsToTry
  attempt,    \* the inner loop counter
  lastError,  \* let lastError   (part_003:175)
  trace,      \* history of calls, settlements, sleeps, the return and the rejection
  result,     \* the document the promise resolved with
  thrown      \* the message the promise rejected with
pvars == <<pc, modelIdx, attempt, lastError, trace, result, thrown>>

\* The streamed response text and attemptJsonRepair
VARIABLES
  rText,    \* the response text received so far
  rPhase,   \* "streaming" | "once" | "twice"
  rOut1,    \* attemptJsonRepair(rText)
  rOut2     \* attemptJsonRepair(rOut1)
rvars == <<rText, rPhase, rOut1, rOut2>>

\* The classification of one block
VARIABLES
  cText,         \* the block text under examination
  cPlain,        \* its rendering as content without paragraph markup
  cMarkup,       \* its rendering as content with paragraph markup
  cDocx,         \* its paragraphs in the export
  cIsEq          \* the value of isEquation on it
cvars == <<cText, cPlain, cMarkup, cDocx, cIsEq>>

\* The editor: document, preview and export
VARIABLES
  sections,      \* manuscriptData.sections[i].content
  figures,       \* manuscriptData.figures
  screen,        \* what LayoutPreview shows for the current manuscriptData
  file,          \* the file exported from the current manuscriptData, if any
  blurs          \* blur events so far
lvars == <<sections, figures, screen, file, blurs>>

\* runValidation
VARIABLES
  original,          \* the text the extraction started from
  generated,         \* the extracted manuscript
  validationStats    \* the report of runValidation
wvars == <<original, generated, validationStats>>

\* The session: screen, texts, the live document and what is still pending
VARIABLES
  appState,        \* AppState: "LOGIN" | "UPLOAD" | "PROCESSING" | "METADATA_REVIEW" | "PREVIEW"
  currentUser,     \* the signed-in e-mail, "" when nobody is signed in
  rawText,         \* the text in the paste box / read from the file
  error,           \* the inline error message, Undefined for null
  manuscriptData,  \* the live document, NoData for null
  pending          \* bag of callbacks not yet run: file reads, extractions, timers
avars == <<appState, currentUser, rawText, error, manuscriptData, pending>>

\* The front matter: createManualManuscript and the affiliation indices
VARIABLES
  manualText,    \* the text given to createManualManuscript
  manualDoc,     \* the document it returned
  authors,       \* data.authors[i].affiliation
  affIndices     \* the affiliation index shown for each author
fvars == <<manualText, manualDoc, authors, affIndices>>

\* The ArticleData editor's figure list and the body loop of generateDocx
VARIABLES
  dataFigures,      \* data.figures
  uploads,          \* image files chosen so far
  docLines,         \* const lines: data.content split at the line feeds
  lineNo,           \* the loop counter i, counting from 1
  paragraphBuffer,  \* let paragraphBuffer
  tableBuffer,      \* let tableBuffer
  inTable,          \* let inTable
  inReferences,     \* let inReferences
  contentChildren,  \* const contentChildren
  finished          \* the final flush has run
dvars == <<dataFigures, uploads, docLines, lineNo, paragraphBuffer, tableBuffer,
           inTable, inReferences, contentChildren, finished>>

vars == <<pvars, rvars, cvars, lvars, wvars, avars, fvars, dvars>>

(***************************************************************************)
(* Part I - parseManuscript: constants and inputs                          *)
(***************************************************************************)

\* modelsToTry (part_003:156); a model is named by its index in the list.
modelsToTry == <<"gemini-3-flash-preview", "gemini-3-pro-preview">>
NumModels == Len(modelsToTry)

\* for (let attempt = 1; attempt <= 2; attempt++)   (part_003:181)
MaxAttempts == 2

\* Error messages are sequences of tokens; String.includes(marker) is
\* membership of the marker among the tokens.  The empty sequence is the
\* empty (falsy) message.
includes(msg, marker) == \E i \in 1..Len(msg) : msg[i] = marker

\* Messages the backend call can fail with (the GoogleGenAI SDK rejects with
\* an Error whose message carries the HTTP status / gRPC status text).
BackendErrors ==
  { <<"got", "status", "429", "Too Many Requests">>,
    <<"RESOURCE_EXHAUSTED", "quota">>,
    <<"503", "Service Unavailable", "overloaded">>,
    <<"401", "API key not valid">>,
    <<"400", "Bad Request">>,
    <<>> }

\* new Error("Empty response from AI")   (part_003:231)
EmptyResponseMsg == <<"Empty response from AI">>
\* new Error("Manuscript is too long/complex ...")   (part_003:226)
TooLongMsg == <<"Manuscript is too long/complex for AI.", "Please try cutting it in half or use Manual Mode.">>
\* "AI processing failed. Please use Manual Mode."   (part_003:251)
DefaultFailMsg == <<"AI processing failed.", "Please use Manual Mode.">>

\* The fields the repair path backfills (part_003:212-217).
Fields == {"title", "sections", "authors", "keywords", "references", "abstract"}

\* What the backend can answer when the call resolves.  kind says how
\* response.text behaves under JSON.parse:
\*   empty     - response.text is falsy
\*   json      - cleanText parses directly
\*   truncated - cleanText does not parse, attemptJsonRepair(cleanText) does
\*   garbage   - neither parses (or the repaired text parses to a value
\*               that is not an object, so that line 212 throws)
\* present is the set of fields that are truthy in the parsed object; doi is
\* the value of its doi property ("absent" when it has none).
DoiValues == {"absent", "", "null", "10.1000/jbsh.2024.001"}
Responses ==
  { [kind |-> "empty", present |-> {}, doi |-> "absent"],
    [kind |-> "garbage", present |-> {}, doi |-> "absent"] }
  \cup { [kind |-> k, present |-> F, doi |-> d] :
           k \in {"json", "truncated"}, F \in SUBSET Fields, d \in DoiValues }

Undefined == [defined |-> FALSE, message |-> <<>>]
Err(msg) == [defined |-> TRUE, message |-> msg]

NoDoc == [via |-> "none", model |-> 0, attempt |-> 0, present |-> {}, placeholder |-> {},
          doi |-> "absent", meta |-> {}]

(***************************************************************************)
(* Part II - attemptJsonRepair on output that was cut off in mid-stream    *)
(***************************************************************************)

\* Bounds of the streamed text.
MaxLen == 8       \* characters emitted before the cut
MaxStrLen == 2    \* characters inside one string literal
MaxDepth == 2     \* nesting of objects / arrays

\* Texts are sequences of characters.  The characters the model streams:
\* the JSON structural characters, the quote, the backslash, one letter
\* (which is also a legal escape character) and one whitespace character.
Quote == "\""
Backslash == "\\"
Chars == {"{", "}", "[", "]", Quote, Backslash, ":", ",", "n", " "}

Last(s) == s[Len(s)]
Front(s) == SubSeq(s, 1, Len(s) - 1)

\* String.prototype.trim(): the blank and the line feed are the whitespace
\* of the texts here   (part_003:58, 109)
RECURSIVE trimStart(_)
trimStart(s) == IF s # <<>> /\ Head(s) \in {" ", "\n"} THEN trimStart(Tail(s)) ELSE s
RECURSIVE trimEnd(_)
trimEnd(s) == IF s # <<>> /\ Last(s) \in {" ", "\n"} THEN trimEnd(Front(s)) ELSE s
trim(s) == trimEnd(trimStart(s))

\* 1. Fix Unclosed String (count quotes)   (part_003:61-67)
RECURSIVE countQuotes(_, _, _, _)
countQuotes(repaired, i, quoteCount, escape) ==
  IF i > Len(repaired) THEN quoteCount
  ELSE IF repaired[i] = Backslash /\ ~escape
       THEN countQuotes(repaired, i + 1, quoteCount, TRUE)
       ELSE countQuotes(repaired, i + 1,
                        IF repaired[i] = Quote /\ ~escape THEN quoteCount + 1 ELSE quoteCount,
                        FALSE)

\* 2. Fix Unbalanced Braces/Brackets   (part_003:74-97); yields the stack.
RECURSIVE scanStack(_, _, _, _, _)
scanStack(repaired, i, stack, inString, escape) ==
  IF i > Len(repaired) THEN stack
  ELSE LET char == repaired[i] IN
       IF char = Backslash /\ ~escape
       THEN scanStack(repaired, i + 1, stack, inString, TRUE)
       ELSE LET inString2 == IF char = Quote /\ ~escape THEN ~inString ELSE inString
                stack2 ==
                  IF ~inString2 /\ ~escape
                  THEN IF char = "{" THEN Append(stack, "}")
                       ELSE IF char = "[" THEN Append(stack, "]")
                       ELSE IF char \in {"}", "]"} /\ stack # <<>> /\ Last(stack) = char
                            THEN Front(stack)
                            ELSE stack
                  ELSE stack
            IN scanStack(repaired, i + 1, stack2, inString2, FALSE)

\* while (stack.length > 0) repaired += stack.pop()   (part_003:100-102)
RECURSIVE popAll(_)
popAll(stack) == IF stack = <<>> THEN <<>> ELSE <<Last(stack)>> \o popAll(Front(stack))

\* Variant: every quote is counted, escaped or not.
attemptJsonRepair_noEscape(jsonStr) ==
  LET trimmed == trim(jsonStr)
      closed == IF Len(SelectSeq(trimmed, LAMBDA c : c = Quote)) % 2 # 0
                THEN Append(trimmed, Quote) ELSE trimmed
  IN closed \o popAll(scanStack(closed, 1, <<>>, FALSE, FALSE))

\* attemptJsonRepair   (part_003:57-105)
attemptJsonRepair(jsonStr) ==
  LET trimmed == trim(jsonStr)
      closed == IF countQuotes(trimmed, 1, 0, FALSE) % 2 # 0
                THEN Append(trimmed, Quote) ELSE trimmed
  IN closed \o popAll(scanStack(closed, 1, <<>>, FALSE, FALSE))

\* JSON.parse (part_003:199, 209) as a pushdown recogniser over Chars.  On
\* texts over Chars the JSON grammar has these values only: strings (with the
\* escapes \" \\ \n), objects and arrays.  mode is what the parser expects
\* next; str is the raw content of the string value read last, len the
\* length of the string literal being read.
JsonStart == [mode |-> "value", stack |-> <<>>, str |-> <<>>, len |-> 0]
jsonFail(st) == [st EXCEPT !.mode = "fail"]
jsonStep(st, c) ==
  CASE st.mode = "fail" -> st
    [] st.mode \in {"inStr", "inKey"} ->
         IF c = Backslash
         THEN [st EXCEPT !.mode = IF st.mode = "inStr" THEN "inStrEsc" ELSE "inKeyEsc",
                         !.str = IF st.mode = "inStr" THEN Append(@, c) ELSE @,
                         !.len = @ + 1]
         ELSE IF c = Quote
         THEN [st EXCEPT !.mode = IF st.mode = "inStr" THEN "after" ELSE "colon"]
         ELSE [st EXCEPT !.str = IF st.mode = "inStr" THEN Append(@, c) ELSE @,
                         !.len = @ + 1]
    [] st.mode \in {"inStrEsc", "inKeyEsc"} ->
         IF c \in {Quote, Backslash, "n"}
         THEN [st EXCEPT !.mode = IF st.mode = "inStrEsc" THEN "inStr" ELSE "inKey",
                         !.str = IF st.mode = "inStrEsc" THEN Append(@, c) ELSE @,
                         !.len = @ + 1]
         ELSE jsonFail(st)
    [] OTHER ->
         IF c = " " THEN st
         ELSE CASE st.mode \in {"value", "valueOrEnd"} ->
                     IF c = Quote THEN [st EXCEPT !.mode = "inStr", !.str = <<>>, !.len = 0]
                     ELSE IF c = "{" THEN [st EXCEPT !.mode = "keyOrEnd", !.stack = Append(@, "{")]
                     ELSE IF c = "[" THEN [st EXCEPT !.mode = "valueOrEnd", !.stack = Append(@, "[")]
                     ELSE IF c = "]" /\ st.mode = "valueOrEnd"
                          THEN [st EXCEPT !.mode = "after", !.stack = Front(@)]
                     ELSE jsonFail(st)
                [] st.mode \in {"key", "keyOrEnd"} ->
                     IF c = Quote THEN [st EXCEPT !.mode = "inKey", !.len = 0]
                     ELSE IF c = "}" /\ st.mode = "keyOrEnd"
                          THEN [st EXCEPT !.mode = "after", !.stack = Front(@)]
                     ELSE jsonFail(st)
                [] st.mode = "colon" ->
                     IF c = ":" THEN [st EXCEPT !.mode = "value"] ELSE jsonFail(st)
                [] st.mode = "after" ->
                     IF st.stack = <<>> THEN jsonFail(st)
                     ELSE IF c = "," THEN [st EXCEPT !.mode = IF Last(st.stack) = "{" THEN "key" ELSE "value"]
                     ELSE IF (c = "}" /\ Last(st.stack) = "{") \/ (c = "]" /\ Last(st.stack) = "[")
                          THEN [st EXCEPT !.stack = Front(@)]
                     ELSE jsonFail(st)

RECURSIVE jsonRun(_, _, _)
jsonRun(st, s, i) == IF i > Len(s) THEN st ELSE jsonRun(jsonStep(st, s[i]), s, i + 1)
jsonScan(s) == jsonRun(JsonStart, s, 1)

\* JSON.parse(s) does not throw.
jsonParses(s) == LET st == jsonScan(s) IN st.mode = "after" /\ st.stack = <<>>

\* The characters a raw string content stands for (JSON.parse's unescaping);
\* a trailing lone backslash stands for no character yet.
RECURSIVE unescape(_)
unescape(raw) ==
  IF raw = <<>> THEN <<>>
  ELSE IF Head(raw) = Backslash
       THEN IF Len(raw) = 1 THEN <<>>
            ELSE <<(IF raw[2] = "n" THEN "LF" ELSE raw[2])>> \o unescape(Tail(Tail(raw)))
       ELSE <<Head(raw)>> \o unescape(Tail(raw))

InitRepair(texts) ==
  /\ rText \in texts
  /\ rPhase = "streaming"
  /\ rOut1 = <<>>
  /\ rOut2 = <<>>

\* The backend emits the next character of a well-formed JSON document.
Emit ==
  /\ rPhase = "streaming"
  /\ UNCHANGED <<pvars, cvars, lvars, wvars, avars, fvars, dvars>>
  /\ Len(rText) < MaxLen
  /\ \E c \in Chars :
       LET st == jsonScan(Append(rText, c)) IN
       /\ st.mode # "fail"
       /\ Len(st.stack) <= MaxDepth
       /\ st.len <= MaxStrLen
       /\ rText' = Append(rText, c)
  /\ UNCHANGED <<rPhase, rOut1, rOut2>>

\* The stream stops here (complete, or cut at maxOutputTokens) and the text
\* goes through attemptJsonRepair   (part_003:208).
Repair ==
  /\ rPhase = "streaming"
  /\ UNCHANGED <<pvars, cvars, lvars, wvars, avars, fvars, dvars>>
  /\ rPhase' = "once"
  /\ rOut1' = attemptJsonRepair(rText)
  /\ UNCHANGED <<rText, rOut2>>

\* attemptJsonRepair applied to its own output.
RepairAgain ==
  /\ rPhase = "once"
  /\ UNCHANGED <<pvars, cvars, lvars, wvars, avars, fvars, dvars>>
  /\ rPhase' = "twice"
  /\ rOut2' = attemptJsonRepair(rOut1)
  /\ UNCHANGED <<rText, rOut1>>

(***************************************************************************)
(* Part I - parseManuscript: state and actions                             *)
(***************************************************************************)
\* One entry of the history.  ev is
\*   call         - generateContent was invoked for (model, attempt)
\*   settle       - that call resolved or rejected; kind / present / msg say how
\*   repairFailed - console.error("JSON Repair Failed:", repairError)  (part_003:223)
\*   caught       - console.warn(`Attempt ... failed:`, error.message) (part_003:234)
\*   sleep, wake  - await sleep(ms) started / elapsed
\*   return, reject - the promise settled
Event(e, k, F, msg, ms) ==
  [ev |-> e, model |-> modelIdx, attempt |-> attempt, kind |-> k, present |-> F,
   msg |-> msg, ms |-> ms, doi |-> "absent"]
Ev(e) == Event(e, "none", {}, <<>>, 0)

\* The SyntaxError JSON.parse raised on the repaired text.
RepairErrorMsg == <<"SyntaxError", "Unexpected end of JSON input">>

\* doi: "10.xxxxx/jbsh.vX.iX.xxxx"   (part_003:263)
PlaceholderDoi == "10.xxxxx/jbsh.vX.iX.xxxx"

\* finalizeData (part_003:255-278): spreads parsed, then sets the metadata
\* properties; meta is the set of properties the literal assigns.
finalizeData(parsed) ==
  [parsed EXCEPT !.doi = PlaceholderDoi,
                 !.meta = {"doi", "volume", "issue", "year", "pages",
                           "receivedDate", "acceptedDate", "publishedDate",
                           "figures", "logoUrl", "loaNumber", "loaDate", "loaBody"}]

\* Variant: every caught error is retried.
isRetryable_all(msg) == TRUE

\* error.message?.includes("429") || error.message?.includes("RESOURCE_EXHAUSTED")
\* (part_003:238)
isRetryable(msg) == includes(msg, "429") \/ includes(msg, "RESOURCE_EXHAUSTED")

\* Variant: a fixed delay.
waitTime_flat(a) == 2000

\* const waitTime = attempt * 2000   (part_003:239)
waitTime(a) == a * 2000

\* Variant: the final throw always carries the fixed text.
finalMessage_default(le) == DefaultFailMsg

\* throw new Error(lastError?.message || "AI processing failed...")  (part_003:251)
finalMessage(le) == IF le.defined /\ le.message # <<>> THEN le.message ELSE DefaultFailMsg

\* Variant: the attempt counter is shared by the two loops and not reset.
nextModel_noReset(m, le) ==
  IF m < NumModels
  THEN [pc |-> "loop", modelIdx |-> m + 1, attempt |-> MaxAttempts, thrown |-> <<>>, rejected |-> FALSE]
  ELSE [pc |-> "rejected", modelIdx |-> m, attempt |-> 1, thrown |-> finalMessage(le), rejected |-> TRUE]

\* Leaving the attempt loop of model m (break, or the loop condition failing):
\* the outer for takes the next model, or falls through to the final throw.
nextModel(m, le) ==
  IF m < NumModels
  THEN [pc |-> "loop", modelIdx |-> m + 1, attempt |-> 1, thrown |-> <<>>, rejected |-> FALSE]
  ELSE [pc |-> "rejected", modelIdx |-> m, attempt |-> 1, thrown |-> finalMessage(le), rejected |-> TRUE]

\* Variant: the loop test admits one attempt more.
nextAttempt_oneMore(m, a, le) ==
  IF a + 1 <= MaxAttempts + 1
  THEN [pc |-> "loop", modelIdx |-> m, attempt |-> a + 1, thrown |-> <<>>, rejected |-> FALSE]
  ELSE nextModel(m, le)

\* attempt++ followed by the test attempt <= 2 (continue, or the end of the body).
nextAttempt(m, a, le) ==
  IF a + 1 <= MaxAttempts
  THEN [pc |-> "loop", modelIdx |-> m, attempt |-> a + 1, thrown |-> <<>>, rejected |-> FALSE]
  ELSE nextModel(m, le)

\* Install a control point computed by nextModel / nextAttempt.
Goto(cp, evs) ==
  /\ pc' = cp.pc
  /\ modelIdx' = cp.modelIdx
  /\ attempt' = cp.attempt
  /\ thrown' = cp.thrown
  /\ trace' = trace \o evs \o
       (IF cp.rejected THEN <<Event("reject", "none", {}, cp.thrown, 0)>> ELSE <<>>)

InitParse ==
  /\ pc = "loop"
  /\ modelIdx = 1
  /\ attempt = 1
  /\ lastError = Undefined
  /\ trace = <<>>
  /\ result = NoDoc
  /\ thrown = <<>>

\* await ai.models.generateContent({...})   (part_003:183): the request leaves.
IssueCall ==
  /\ pc = "loop"
  /\ UNCHANGED <<rvars, cvars, lvars, wvars, avars, fvars, dvars>>
  /\ pc' = "calling"
  /\ trace' = Append(trace, Ev("call"))
  /\ UNCHANGED <<modelIdx, attempt, lastError, result, thrown>>

\* catch (error)   (part_003:233-247), entered with an error of message msg.
catchBlock(msg, evs) ==
  LET log == evs \o <<Event("caught", "none", {}, msg, 0)>> IN
  /\ lastError' = Err(msg)
  /\ IF isRetryable(msg)
     THEN /\ pc' = "sleeping"
          /\ trace' = trace \o log \o <<Event("sleep", "none", {}, <<>>, waitTime(attempt))>>
          /\ UNCHANGED <<modelIdx, attempt, thrown>>
     ELSE Goto(nextModel(modelIdx, Err(msg)), log)
  /\ UNCHANGED result

\* The backend call rejects.
BackendThrows ==
  /\ pc = "calling"
  /\ UNCHANGED <<rvars, cvars, lvars, wvars, avars, fvars, dvars>>
  /\ \E msg \in BackendErrors : catchBlock(msg, <<Event("settle", "error", {}, msg, 0)>>)

\* await sleep(waitTime) has elapsed; continue   (part_003:241-242).
Wake ==
  /\ pc = "sleeping"
  /\ UNCHANGED <<rvars, cvars, lvars, wvars, avars, fvars, dvars>>
  /\ Goto(nextAttempt(modelIdx, attempt, lastError), <<Ev("wake")>>)
  /\ UNCHANGED <<lastError, result>>

\* Variant: the document is kept but the loop is not left.
Return_noStop(doc, ev) ==
  /\ result' = finalizeData(doc)
  /\ Goto(nextAttempt(modelIdx, attempt, lastError), <<ev>>)
  /\ UNCHANGED lastError

\* return finalizeData(...)   (part_003:200, 220)
Return(doc, ev) ==
  /\ pc' = "returned"
  /\ result' = finalizeData(doc)
  /\ trace' = trace \o <<ev, Ev("return")>>
  /\ UNCHANGED <<modelIdx, attempt, lastError, thrown>>

\* The backend call resolves with a response   (part_003:194-231).
BackendReturns ==
  /\ pc = "calling"
  /\ UNCHANGED <<rvars, cvars, lvars, wvars, avars, fvars, dvars>>
  /\ \E resp \in Responses :
       LET ev == [Event("settle", resp.kind, resp.present, <<>>, 0) EXCEPT !.doi = resp.doi] IN
       CASE resp.kind = "empty" ->
              \* if (!response.text && attempt === 2) throw ...
              IF attempt = 2
              THEN catchBlock(EmptyResponseMsg, <<ev>>)
              ELSE /\ Goto(nextAttempt(modelIdx, attempt, lastError), <<ev>>)
                   /\ UNCHANGED <<lastError, result>>
         [] resp.kind = "json" ->
              \* ATTEMPT 1: direct parse; returned as parsed
              Return([via |-> "direct", model |-> modelIdx, attempt |-> attempt,
                      present |-> resp.present, placeholder |-> {},
                      doi |-> resp.doi, meta |-> {}], ev)
         [] resp.kind = "truncated" ->
              \* ATTEMPT 2: repaired parse; falsy fields get their placeholder
              Return([via |-> "repaired", model |-> modelIdx, attempt |-> attempt,
                      present |-> resp.present, placeholder |-> Fields \ resp.present,
                      doi |-> resp.doi, meta |-> {}], ev)
         [] resp.kind = "garbage" ->
              \* catch (repairError): throws only for the last model; the throw
              \* lands in the outer catch.  Otherwise the body ends normally.
              LET failed == Event("repairFailed", "none", {}, RepairErrorMsg, 0) IN
              IF modelIdx = NumModels
              THEN catchBlock(TooLongMsg, <<ev, failed>>)
              ELSE /\ Goto(nextAttempt(modelIdx, attempt, lastError), <<ev, failed>>)
                   /\ UNCHANGED <<lastError, result>>

(***************************************************************************)
(* Part III - the layout engine: injectFigures / isEquation of the preview *)
(* (src/unnamed/part_000:87-183) and the body loop of handleDownloadDocx   *)
(* (src/services/geminiService.ts:1186-1226).                              *)
(*                                                                         *)
(* A text is a sequence of tokens [t, n]: t is a lexeme (a character, a    *)
(* word, a markup tag or a blank-line run) and n the number of times the   *)
(* character is repeated, so that a text reaches the length limits of the  *)
(* classifier with a few tokens.                                           *)
(***************************************************************************)
Tok(t) == [t |-> t, n |-> 1]
Rep(t, n) == [t |-> t, n |-> n]
Toks(ts) == [i \in 1..Len(ts) |-> Tok(ts[i])]

Digits == {"1", "2", "3"}
Break == "\n\n"
Tags == {"<p>", "</p>", "<table>", "</table>", "<b>", "</b>",
         "<h3 class=font-bold>", "</h3>", "<h4 class=font-bold>", "</h4>",
         "<div class=text-center>", "<div class=figure-container>", "</div>",
         "<p class=indent-1cm>", "<p class=text-center>", "<img>", "<span>", "</span>"}
\* Words that open a figure citation, in the letter cases the model uses.
FigureWords == {"Figure", "figure", "Fig"}

\* Number of characters of a lexeme.
lexLen(t) ==
  CASE t \in {"Figure", "figure"} -> 6
    [] t \in {"Table", "table"} -> 5
    [] t = "Fig" -> 3
    [] t = Break -> 2
    [] OTHER -> 1

isSpace(k) == k.t \in {" ", Break}                        \* \s
isDigit(k) == k.t \in Digits                               \* \d

\* s.length
RECURSIVE textLen(_)
textLen(s) == IF s = <<>> THEN 0 ELSE lexLen(Head(s).t) * Head(s).n + textLen(Tail(s))

\* replace(/<[^>]+>/g, '')
RECURSIVE stripTags(_)
stripTags(s) ==
  IF s = <<>> THEN <<>>
  ELSE IF Head(s).t \in Tags THEN stripTags(Tail(s)) ELSE <<Head(s)>> \o stripTags(Tail(s))

\* String.prototype.trim()
RECURSIVE trimText(_)
trimText(s) ==
  IF s # <<>> /\ isSpace(Head(s)) THEN trimText(Tail(s))
  ELSE IF s # <<>> /\ isSpace(Last(s)) THEN trimText(Front(s))
  ELSE s

\* The first position from i on whose token is not a digit / not whitespace.
RECURSIVE skipDigits(_, _)
skipDigits(s, i) == IF i <= Len(s) /\ isDigit(s[i]) THEN skipDigits(s, i + 1) ELSE i
RECURSIVE skipSpaces(_, _)
skipSpaces(s, i) == IF i <= Len(s) /\ isSpace(s[i]) THEN skipSpaces(s, i + 1) ELSE i

\* /^\d+\.\s+[A-Z]/.test(s)
numberedCaps(s) ==
  LET d == skipDigits(s, 1)
      w == skipSpaces(s, d + 1)
  IN /\ d > 1 /\ d <= Len(s) /\ s[d].t = "."
     /\ w > d + 1 /\ w <= Len(s) /\ s[w].t \in {"A", "Figure", "Fig", "Table"}   \* first character in [A-Z]

\* /^[A-Z\s\W]+$/.test(s)
allCaps(s) ==
  s # <<>> /\ \A i \in 1..Len(s) : s[i].t \in {"A", " ", Break, ".", "=", ":"}

\* /^\d+(\.\d+)+/.test(s)
multiLevel(s) ==
  LET d == skipDigits(s, 1)
  IN d > 1 /\ d + 1 <= Len(s) /\ s[d].t = "." /\ isDigit(s[d + 1])

\* /[=...]/.test(s)
hasMath(s) == \E i \in 1..Len(s) : s[i].t = "="
\* /^(Figure|Table)/i.test(s)
startsFigureOrTable(s) == s # <<>> /\ Head(s).t \in {"Figure", "figure", "Table", "table"}
\* s.endsWith('.')
endsWithPeriod(s) == s # <<>> /\ Last(s).t = "."

\* The digits of positions i..j-1 as one string.
RECURSIVE digitString(_, _, _)
digitString(s, i, j) == IF i >= j THEN "" ELSE s[i].t \o digitString(s, i + 1, j)

\* The ids captured by /(?:Figure|Fig\.?)\s*(\d+)/gi over s from position i,
\* in the order regex.exec yields them.
RECURSIVE citations(_, _)
citations(s, i) ==
  IF i > Len(s) THEN <<>>
  ELSE IF s[i].t \in FigureWords
       THEN LET afterDot == IF s[i].t = "Fig" /\ i + 1 <= Len(s) /\ s[i + 1].t = "."
                            THEN i + 2 ELSE i + 1
                from == skipSpaces(s, afterDot)
                to == skipDigits(s, from)
            IN IF to > from
               THEN <<digitString(s, from, to)>> \o citations(s, to)
               ELSE citations(s, i + 1)
       ELSE citations(s, i + 1)

\* s.split(separator): the pieces between the tokens of lexeme sep.
RECURSIVE splitOn(_, _, _)
splitOn(s, sep, cur) ==
  IF s = <<>> THEN <<cur>>
  ELSE IF Head(s).t = sep THEN <<cur>> \o splitOn(Tail(s), sep, <<>>)
       ELSE splitOn(Tail(s), sep, Append(cur, Head(s)))

\* t.length > 150 / t.length < 2   (part_000:92-93, geminiService.ts:1092-1093)
EquationMaxLen == 150
EquationMinLen == 2
\* cleanPartText.length < 100   (part_000:121, 124; geminiService.ts:1190-1191)
HeadingMaxLen == 100

\* Variant: the upper limit is exclusive.
isEquationText_exclusive(t) ==
  /\ ~(textLen(t) >= EquationMaxLen)
  /\ ~(textLen(t) < EquationMinLen)
  /\ hasMath(t) /\ ~startsFigureOrTable(t) /\ ~endsWithPeriod(t)

\* The body of isEquation after t has been computed   (part_000:92-99).
isEquationText(t) ==
  /\ ~(textLen(t) > EquationMaxLen)
  /\ ~(textLen(t) < EquationMinLen)
  /\ hasMath(t) /\ ~startsFigureOrTable(t) /\ ~endsWithPeriod(t)

\* isEquation of the preview   (part_000:90-100)
isEquation(line) == isEquationText(trimText(stripTags(line)))

\* isEquation of the DOCX export   (geminiService.ts:1090-1097)
isEquationDocx(text) == isEquationText(trimText(text))

\* A figure of manuscriptData.figures; NoFigure is an undefined list entry.
\* The caption is newFigCaption || `Figure ${n}`   (App.tsx:591).
Figure(id) == [id |-> id, caption |-> <<Tok("a")>>, undef |-> FALSE]
NoFigure == [id |-> "", caption |-> <<>>, undef |-> TRUE]

\* figures.find(f => f.id === figId): the index of the match, 0 when there is
\* none, -1 when reading f.id throws on an undefined entry met before it.
RECURSIVE findFigure(_, _, _)
findFigure(figs, figId, i) ==
  IF i > Len(figs) THEN 0
  ELSE IF figs[i].undef THEN -1
  ELSE IF figs[i].id = figId THEN i
  ELSE findFigure(figs, figId, i + 1)

\* part.replace('<p>', '<p class="text-center italic font-serif my-4">')
RECURSIVE replaceFirstP(_)
replaceFirstP(part) ==
  IF part = <<>> THEN <<>>
  ELSE IF Head(part).t = "<p>" THEN <<Tok("<p class=text-center>")>> \o Tail(part)
       ELSE <<Head(part)>> \o replaceFirstP(Tail(part))

\* The figure-container markup appended for fig   (part_000:159-169).
figureHtml(fig) ==
  <<Tok("<div class=figure-container>"), Tok("<img>"),
    Tok("<span>"), Tok("Figure"), Tok(" "), Tok(fig.id), Tok(":"), Tok(" "), Tok("</span>"),
    Tok("<span>")>> \o fig.caption \o <<Tok("</span>"), Tok("</div>")>>

\* One piece of newContent: the markup written for a part (b = "text", as
\* "h3" | "h4" | "eq" | "p" | "kept" | "keptEq") or for a figure (b = "figure").
TextBlock(as, html, clean, main, sub, eq) ==
  [b |-> "text", as |-> as, html |-> html, clean |-> clean, fig |-> "",
   isMainHeading |-> main, isSubHeading |-> sub, isEq |-> eq]
FigureBlock(fig) ==
  [b |-> "figure", as |-> "figure", html |-> figureHtml(fig), clean |-> <<>>, fig |-> fig.id,
   isMainHeading |-> FALSE, isSubHeading |-> FALSE, isEq |-> FALSE]

\* The markup injectFigures writes for one non-empty part   (part_000:117-148).
textBlockOf(part, hasPTags) ==
  LET cleanPartText == trimText(stripTags(part))
      isMainHeading == textLen(cleanPartText) < HeadingMaxLen
                         /\ (numberedCaps(cleanPartText) \/ allCaps(cleanPartText))
      isSubHeading == textLen(cleanPartText) < HeadingMaxLen /\ multiLevel(cleanPartText)
      isEq == isEquation(cleanPartText)
  IN IF hasPTags
     THEN IF isEq
          THEN TextBlock("keptEq", replaceFirstP(part), cleanPartText, isMainHeading, isSubHeading, isEq)
          ELSE TextBlock("kept", part, cleanPartText, isMainHeading, isSubHeading, isEq)
     ELSE IF isMainHeading
          THEN TextBlock("h3", <<Tok("<h3 class=font-bold>")>> \o cleanPartText \o <<Tok("</h3>")>>,
                         cleanPartText, isMainHeading, isSubHeading, isEq)
          ELSE IF isSubHeading
          THEN TextBlock("h4", <<Tok("<h4 class=font-bold>")>> \o cleanPartText \o <<Tok("</h4>")>>,
                         cleanPartText, isMainHeading, isSubHeading, isEq)
          ELSE IF isEq
          THEN TextBlock("eq", <<Tok("<div class=text-center>")>> \o cleanPartText \o <<Tok("</div>")>>,
                         cleanPartText, isMainHeading, isSubHeading, isEq)
          ELSE TextBlock("p", <<Tok("<p class=indent-1cm>")>> \o cleanPartText \o <<Tok("</p>")>>,
                         cleanPartText, isMainHeading, isSubHeading, isEq)

\* The state threaded through a render: the pieces written so far, the set
\* placedFigureIds, and whether the render threw.
RenderStart == [blocks |-> <<>>, placed |-> {}, crashed |-> FALSE]

\* Variant: only the first match is looked at.
matchesOf_first(text) ==
  IF citations(text, 1) = <<>> THEN <<>> ELSE <<Head(citations(text, 1))>>

\* The matches regex.exec yields on text, one after the other.
matchesOf(text) == citations(text, 1)

\* while ((match = regex.exec(cleanPartText)) !== null) {...}   (part_000:153-172)
RECURSIVE placeCited(_, _, _, _)
placeCited(cites, i, figs, st) ==
  IF i > Len(cites) \/ st.crashed THEN st
  ELSE IF cites[i] \in st.placed THEN placeCited(cites, i + 1, figs, st)
  ELSE LET f == findFigure(figs, cites[i], 1) IN
       IF f = -1 THEN [st EXCEPT !.crashed = TRUE]
       ELSE IF f = 0 THEN placeCited(cites, i + 1, figs, st)
       ELSE placeCited(cites, i + 1, figs,
                       [st EXCEPT !.placed = @ \cup {cites[i]},
                                  !.blocks = Append(@, FigureBlock(figs[f]))])

\* parts.forEach((part) => {...})   (part_000:116-173)
RECURSIVE renderParts(_, _, _, _, _)
renderParts(parts, i, hasPTags, figs, st) ==
  IF i > Len(parts) \/ st.crashed THEN st
  ELSE LET blk == textBlockOf(parts[i], hasPTags) IN
       IF blk.clean = <<>> THEN renderParts(parts, i + 1, hasPTags, figs, st)
       ELSE renderParts(parts, i + 1, hasPTags, figs,
                        placeCited(matchesOf(blk.clean), 1, figs,
                                   [st EXCEPT !.blocks = Append(@, blk)]))

\* content.includes('</p>')
hasPTagsIn(content) == \E i \in 1..Len(content) : content[i].t = "</p>"
\* The parts of a section content   (part_000:105-112).
partsOf(content) ==
  IF ~hasPTagsIn(content)
  THEN SelectSeq(splitOn(content, Break, <<>>), LAMBDA p : trimText(p) # <<>>)
  ELSE LET kept == SelectSeq(splitOn(content, "</p>", <<>>), LAMBDA p : trimText(p) # <<>>)
       IN [i \in 1..Len(kept) |-> Append(kept[i], Tok("</p>"))]

\* injectFigures(content, figures), entered with the render state st; the
\* pieces it appends to st.blocks are its newContent   (part_000:102-176).
injectFigures(content, figs, st) ==
  renderParts(partsOf(content), 1, hasPTagsIn(content), figs, st)

\* The markup of a sequence of pieces.
RECURSIVE htmlOf(_)
htmlOf(blocks) == IF blocks = <<>> THEN <<>> ELSE Head(blocks).html \o htmlOf(Tail(blocks))

\* stripHtmlToText(html): a closing </p> becomes a blank line, every other tag
\* is dropped, the result is trimmed   (geminiService.ts:1060-1069).
RECURSIVE closeParagraphs(_)
closeParagraphs(s) ==
  IF s = <<>> THEN <<>>
  ELSE (IF Head(s).t = "</p>" THEN <<Tok(Break)>> ELSE <<Head(s)>>) \o closeParagraphs(Tail(s))
stripHtmlToText(html) == trimText(stripTags(closeParagraphs(html)))

\* A paragraph pushed to bodyChildren by handleDownloadDocx.
TextParagraph(text, main, sub, formula) ==
  [p |-> "text", text |-> text, fig |-> "",
   isMainHeading |-> main, isSubHeading |-> sub, isFormula |-> formula,
   font |-> IF formula THEN "Cambria Math" ELSE "Georgia",
   bold |-> (main \/ sub), italics |-> formula,
   alignment |-> IF formula THEN "CENTER" ELSE "JUSTIFIED",
   indent |-> IF main \/ sub \/ formula THEN 0 ELSE 567]
OtherParagraph(kind, figId) ==
  [p |-> kind, text |-> <<>>, fig |-> figId,
   isMainHeading |-> FALSE, isSubHeading |-> FALSE, isFormula |-> FALSE,
   font |-> "Arial", bold |-> (kind # "image"), italics |-> FALSE,
   alignment |-> IF kind \in {"image", "caption"} THEN "CENTER" ELSE "LEFT",
   indent |-> 0]

\* The text paragraph written for paraText   (geminiService.ts:1190-1196).
paragraphOf(paraText) ==
  LET t == trimText(paraText)
      isMainHeading == textLen(paraText) < HeadingMaxLen /\ (numberedCaps(t) \/ allCaps(t))
      isSubHeading == textLen(paraText) < HeadingMaxLen /\ multiLevel(t)
      isFormula == isEquationDocx(paraText)
  IN TextParagraph(paraText, isMainHeading, isSubHeading, isFormula)

\* The citation loop of the export   (geminiService.ts:1198-1212); st.blocks
\* holds the paragraphs pushed so far.
RECURSIVE placeCitedDocx(_, _, _, _)
placeCitedDocx(cites, i, figs, st) ==
  IF i > Len(cites) \/ st.crashed THEN st
  ELSE IF cites[i] \in st.placed THEN placeCitedDocx(cites, i + 1, figs, st)
  ELSE LET f == findFigure(figs, cites[i], 1) IN
       IF f = -1 THEN [st EXCEPT !.crashed = TRUE]
       ELSE IF f = 0 THEN placeCitedDocx(cites, i + 1, figs, st)
       ELSE placeCitedDocx(cites, i + 1, figs,
              [st EXCEPT !.placed = @ \cup {cites[i]},
                         !.blocks = @ \o <<OtherParagraph("image", cites[i]),
                                            OtherParagraph("caption", cites[i])>>])

\* for (const paraText of paragraphs) {...}   (geminiService.ts:1189-1214)
RECURSIVE exportParagraphs(_, _, _, _)
exportParagraphs(paragraphs, i, figs, st) ==
  IF i > Len(paragraphs) \/ st.crashed THEN st
  ELSE IF trimText(paragraphs[i]) = <<>> THEN exportParagraphs(paragraphs, i + 1, figs, st)
  ELSE exportParagraphs(paragraphs, i + 1, figs,
         placeCitedDocx(matchesOf(paragraphs[i]), 1, figs,
                        [st EXCEPT !.blocks = Append(@, paragraphOf(paragraphs[i]))]))

\* One section of the export body: its heading paragraph, then its paragraphs
\* (geminiService.ts:1186-1215).
exportSection(content, figs, st) ==
  exportParagraphs(splitOn(stripHtmlToText(content), Break, <<>>), 1, figs,
                   [st EXCEPT !.blocks = Append(@, OtherParagraph("sectionHeading", ""))])

-----------------------------------------------------------------------------
\* Classification of one block of section content, on screen and in the export.

\* The block texts examined: an opening, a body, filler up to a total length
\* around the two length limits, and an ending; optionally inside table markup.
BlockTexts ==
  LET Openings == { <<>>, Toks(<<"1", ".", " ">>), Toks(<<"3", ".", "2", ".", " ">>),
                    Toks(<<"3", ".", "2", " ">>), Toks(<<"Figure", " ", "1", " ">>),
                    Toks(<<"table", " ">>), Toks(<<"<b>">>) }
      Bodies == { Toks(<<"A">>), Toks(<<"a">>), Toks(<<"A", " ", "=", " ", "A">>),
                  Toks(<<"a", "=", "a">>), Toks(<<"=">>), Toks(<<"A", "</b>", "=">>) }
      Endings == { <<>>, Toks(<<".">>), Toks(<<" ">>) }
      Fillers == {"a", "A"}
      TotalLengths == {99, 100, 149, 150, 151}
      filled(o, b, e, f, total) ==
        LET short == textLen(stripTags(o \o b \o e))
        IN o \o b \o (IF total > short THEN <<Rep(f, total - short)>> ELSE <<>>) \o e
      bare == { o \o b \o e : o \in Openings, b \in Bodies, e \in Endings }
                \cup { filled(x[1], x[2], x[3], x[4], x[5]) :
                         x \in Openings \X Bodies \X Endings \X Fillers \X TotalLengths }
  IN bare \cup { <<Tok("<table>")>> \o t \o <<Tok("</table>")>> : t \in bare }

asParagraph(text) == <<Tok("<p>")>> \o text \o <<Tok("</p>")>>

Pending == [done |-> FALSE, blocks |-> <<>>]
Done(st) == [done |-> TRUE, blocks |-> st.blocks]

InitClassify(texts) ==
  /\ cText \in texts
  /\ cPlain = Pending
  /\ cMarkup = Pending
  /\ cDocx = Pending
  /\ cIsEq = "unset"

\* injectFigures on the text as it stands (no </p> in it).
ShowPlain ==
  /\ ~cPlain.done
  /\ UNCHANGED <<pvars, rvars, lvars, wvars, avars, fvars, dvars>>
  /\ cPlain' = Done(injectFigures(cText, <<>>, RenderStart))
  /\ UNCHANGED <<cText, cMarkup, cDocx, cIsEq>>

\* injectFigures on the text inside <p>...</p>.
ShowMarkup ==
  /\ ~cMarkup.done
  /\ UNCHANGED <<pvars, rvars, lvars, wvars, avars, fvars, dvars>>
  /\ cMarkup' = Done(injectFigures(asParagraph(cText), <<>>, RenderStart))
  /\ UNCHANGED <<cText, cPlain, cDocx, cIsEq>>

\* The export body for a section holding the text inside <p>...</p>.
ExportBlock ==
  /\ ~cDocx.done
  /\ UNCHANGED <<pvars, rvars, lvars, wvars, avars, fvars, dvars>>
  /\ cDocx' = Done(exportSection(asParagraph(cText), <<>>, RenderStart))
  /\ UNCHANGED <<cText, cPlain, cMarkup, cIsEq>>

\* isEquation(line) on the text.
TestEquation ==
  /\ cIsEq = "unset"
  /\ UNCHANGED <<pvars, rvars, lvars, wvars, avars, fvars, dvars>>
  /\ cIsEq' = IF isEquation(cText) THEN "true" ELSE "false"
  /\ UNCHANGED <<cText, cPlain, cMarkup, cDocx>>

-----------------------------------------------------------------------------
\* The document in the editor: sections, figures, the preview and the export.

MaxSections == 2
MaxFigures == 2
MaxBlurs == 1

\* Contents an extraction can put in a section.
SectionContents ==
  { Toks(<<"Fig", ".", " ", "2", " ", "a", " ", "Figure", " ", "1">>),
    Toks(<<"<p>", "a", " ", "figure", " ", "2", "</p>", "<p>", "Fig", "1", " ", "a", " ", "Fig", " ", "3", "</p>">>),
    Toks(<<"A", Break, "a", " ", "Figure", " ", "1">>),
    Toks(<<"<p>", "A", "</p>", "<p>", "a", " ", "Figure", " ", "2", "</p>">>) }
\* Variant: every section starts with an empty placed set.
enterSection_fresh(st) == [st EXCEPT !.blocks = <<>>, !.placed = {}]

\* injectFigures starts a new newContent; placedFigureIds is declared outside
\* it and keeps its members   (part_000:87, 114).
enterSection(st) == [st EXCEPT !.blocks = <<>>]

\* data.sections.map(section => injectFigures(section.content, data.figures)):
\* st.blocks collects the newContent of each section, st.placed is the one
\* placedFigureIds of the render   (part_000:87, 178-181).
RECURSIVE renderSections(_, _, _, _)
renderSections(secs, i, figs, st) ==
  IF i > Len(secs) \/ st.crashed THEN st
  ELSE LET r == injectFigures(secs[i], figs, enterSection(st))
       IN renderSections(secs, i + 1, figs, [r EXCEPT !.blocks = Append(st.blocks, r.blocks)])

\* data.figures.filter(f => !placedFigureIds.has(f.id))   (part_000:183)
remainingFigures(figs, placed) == SelectSeq(figs, LAMBDA f : f.id \notin placed)


\* What a render of LayoutPreview leaves on the screen; reading .id of an
\* undefined entry throws and nothing is shown.
LayoutPreview(secs, figs) ==
  LET r == renderSections(secs, 1, figs, RenderStart) IN
  IF r.crashed \/ (\E i \in 1..Len(figs) : figs[i].undef) THEN [crashed |-> TRUE, sections |-> <<>>, remaining |-> <<>>]
  ELSE [crashed |-> FALSE, sections |-> r.blocks, remaining |-> remainingFigures(figs, r.placed)]

\* The body of the exported file   (geminiService.ts:1185-1226).
RECURSIVE exportSections(_, _, _, _)
exportSections(secs, i, figs, st) ==
  IF i > Len(secs) \/ st.crashed THEN st
  ELSE exportSections(secs, i + 1, figs, exportSection(secs[i], figs, st))
NoFile == [made |-> FALSE, crashed |-> FALSE, body |-> <<>>, remaining |-> <<>>]
handleDownloadDocx(secs, figs) ==
  LET r == exportSections(secs, 1, figs, RenderStart) IN
  IF r.crashed \/ (\E i \in 1..Len(figs) : figs[i].undef)
  THEN [made |-> TRUE, crashed |-> TRUE, body |-> <<>>, remaining |-> <<>>]
  ELSE [made |-> TRUE, crashed |-> FALSE, body |-> r.blocks,
        remaining |-> remainingFigures(figs, r.placed)]

\* After an extraction: finalizeData leaves figures empty.
InitLayout(documents) ==
  /\ sections \in documents
  /\ figures = <<>>
  /\ screen = LayoutPreview(sections, figures)
  /\ file = NoFile
  /\ blurs = 0

\* setManuscriptData(...) followed by the render it causes; a file exported
\* before is no longer the export of this manuscriptData.
setManuscriptData(newSections, newFigures) ==
  /\ sections' = newSections
  /\ figures' = newFigures
  /\ screen' = LayoutPreview(newSections, newFigures)
  /\ file' = NoFile

\* handleAddFigure with the onload of its FileReader   (App.tsx:591).  onload
\* works on the manuscriptData captured when the file was chosen and yields
\* that document with the new figure; the same document results when the load
\* ends before the next event, which is the schedule taken here.
AddFigure ==
  /\ ~screen.crashed
  /\ UNCHANGED <<pvars, rvars, cvars, wvars, avars, fvars, dvars>>
  /\ Len(figures) < MaxFigures
  /\ setManuscriptData(sections, Append(figures, Figure(ToString(Len(figures) + 1))))
  /\ UNCHANGED blurs

\* handleRemoveFigure(id)   (App.tsx:592)
RemoveFigure ==
  \E i \in 1..Len(figures) :
    /\ ~screen.crashed
    /\ UNCHANGED <<pvars, rvars, cvars, wvars, avars, fvars, dvars>>
    /\ setManuscriptData(sections, SelectSeq(figures, LAMBDA f : f.id # figures[i].id))
    /\ UNCHANGED blurs

\* handleUpdateFigureOrder(index, direction); index counts from 1 here
\* (App.tsx:589).
handleUpdateFigureOrder(fs, index, direction) ==
  IF direction = "up" /\ index > 1
  THEN [fs EXCEPT ![index - 1] = fs[index], ![index] = fs[index - 1]]
  ELSE IF direction = "down" /\ index < Len(fs)
  THEN [fs EXCEPT ![index + 1] = fs[index], ![index] = IF index > 1 THEN fs[index - 1] ELSE NoFigure]
  ELSE fs

MoveFigure ==
  \E index \in 1..Len(figures) : \E direction \in {"up", "down"} :
    /\ ~screen.crashed
    /\ UNCHANGED <<pvars, rvars, cvars, wvars, avars, fvars, dvars>>
    /\ setManuscriptData(sections, handleUpdateFigureOrder(figures, index, direction))
    /\ UNCHANGED blurs

\* onBlur of a section of the editable preview: handleUpdateSection(idx,
\* e.currentTarget.innerHTML), the element holding the processed content
\* (part_000:326-333, App.tsx:588).
BlurSection ==
  \E idx \in 1..Len(sections) :
    /\ ~screen.crashed
    /\ UNCHANGED <<pvars, rvars, cvars, wvars, avars, fvars, dvars>>
    /\ blurs < MaxBlurs
    /\ blurs' = blurs + 1
    /\ setManuscriptData([sections EXCEPT ![idx] = htmlOf(screen.sections[idx])], figures)

\* handleDownloadDocx on the current manuscriptData.
DownloadDocx ==
  /\ ~screen.crashed
  /\ UNCHANGED <<pvars, rvars, cvars, wvars, avars, fvars, dvars>>
  /\ file' = handleDownloadDocx(sections, figures)
  /\ UNCHANGED <<sections, figures, screen, blurs>>

-----------------------------------------------------------------------------
\* runValidation: the word coverage of the extraction   (App.tsx:127-189).

MaxPieces == 3

\* A text is a sequence of pieces: letter runs, a blank, a punctuation mark, a
\* tag, an entity, and the two artifacts the report looks for.
Letters == {"Cat", "cat", "ab", "x"}
Artifact == "Error! Reference source not found"
Placeholder == "[insert]"
toLowerCase(w) ==
  CASE w = "Cat" -> "cat" [] w = "Keyword1" -> "keyword1" [] w = "Keyword2" -> "keyword2"
    [] OTHER -> w

\* The pieces left where the replace calls of getWords have run: tags, the
\* removed-figure mark and &nbsp; become a blank, other non-word characters
\* are dropped   (App.tsx:130-133).
replaced(piece) ==
  CASE piece \in {"<b>", "<img src=data:image>", "<img src=http:>",
                  "[FIGURE REMOVED]", "&nbsp;", " ", "\n"} -> <<" ">>
    [] piece = "-" -> <<>>
    [] piece = Artifact -> <<"error", " ", "reference", " ", "source", " ", "not", " ", "found">>
    [] piece = Placeholder -> <<"insert">>
    [] piece = "Untitled Manuscript" -> <<"untitled", " ", "manuscript">>
    [] piece = "Paste your manuscript content here..." ->
         <<"paste", " ", "your", " ", "manuscript", " ", "content", " ", "here">>
    [] piece = "Abstract content..." -> <<"abstract", " ", "content">>
    [] piece = "Reference 1" -> <<"reference", " ", "1">>
    [] OTHER -> <<piece>>
RECURSIVE replaceAll(_)
replaceAll(text) == IF text = <<>> THEN <<>> ELSE replaced(Head(text)) \o replaceAll(Tail(text))
\* The number of characters of a piece.
wordLength(w) ==
  CASE w \in {"x", "1", " ", "-", "\n", "|", "a", "b"} -> 1 [] w \in {"ab", "# ", "$$"} -> 2
    [] w = "## " -> 3 [] w = "Intro" -> 5 [] w = "REFERENCES" -> 10
    [] w \in {"![a](figure-1)", "![a](figure-2)", "![a](figure-3)", "![a](figure-9)"} -> 14
    [] w \in {"not", "Cat", "cat", "<b>"} -> 3 [] w \in {"your", "here"} -> 4
    [] w \in {"error", "found", "paste"} -> 5 [] w \in {"source", "insert", "&nbsp;"} -> 6
    [] w = "content" -> 7
    [] w \in {"abstract", "untitled", "Keyword1", "Keyword2", Placeholder} -> 8
    [] w = "reference" -> 9 [] w = "manuscript" -> 10 [] w = "Reference 1" -> 11
    [] w = "<img src=http:>" -> 15 [] w = "[FIGURE REMOVED]" -> 16
    [] w \in {"Untitled Manuscript", "Abstract content..."} -> 19
    [] w = "<img src=data:image>" -> 21 [] w = Artifact -> 33
    [] w = "Paste your manuscript content here..." -> 37
    [] OTHER -> 0

\* .toLowerCase().split(' ').filter(w => w.length > 2) on the collapsed,
\* trimmed text: cur is the word being read, n its length.
MinWordLength == 2
RECURSIVE splitWords(_, _, _)
splitWords(rest, cur, n) ==
  IF rest = <<>> THEN (IF n > MinWordLength THEN <<cur>> ELSE <<>>)
  ELSE IF Head(rest) = " "
       THEN (IF n > MinWordLength THEN <<cur>> ELSE <<>>) \o splitWords(Tail(rest), "", 0)
       ELSE splitWords(Tail(rest), cur \o toLowerCase(Head(rest)), n + wordLength(Head(rest)))
getWords(text) == splitWords(replaceAll(text), "", 0)

\* [...].join(' ')
RECURSIVE join(_)
join(texts) ==
  IF texts = <<>> THEN <<>>
  ELSE IF Len(texts) = 1 THEN Head(texts)
  ELSE Head(texts) \o <<" ">> \o join(Tail(texts))
generatedContentOf(gen) ==
  join(<<gen.title, gen.abstract>> \o gen.keywords
         \o [i \in 1..Len(gen.sections) |-> gen.sections[i].content] \o gen.references)

\* Variant: an original without words counts as fully covered.
coverageOf_vacuous(foundCount, origCount) ==
  IF origCount > 0 THEN ((200 * foundCount) + origCount) \div (2 * origCount) ELSE 100

\* origCount > 0 ? Math.round((foundCount / origCount) * 100) : 0
coverageOf(foundCount, origCount) ==
  IF origCount > 0 THEN ((200 * foundCount) + origCount) \div (2 * origCount) ELSE 0

requiredSections == {"introduction", "method", "result", "discussion", "conclusion"}

\* The validationStats that runValidation(original, generated) sets.
runValidation(orig, gen) ==
  LET originalWords == getWords(orig)
      generatedContent == generatedContentOf(gen)
      generatedWords == getWords(generatedContent)
      generatedWordSet == {generatedWords[i] : i \in 1..Len(generatedWords)}
      origCount == Len(originalWords)
      genCount == Len(generatedWords)
      foundCount == Cardinality({i \in 1..origCount : originalWords[i] \in generatedWordSet})
      coverage == coverageOf(foundCount, origCount)
      adjustedCoverage == IF coverage < 100 THEN coverage ELSE 100
      missingSections == {req \in requiredSections :
                            ~\E i \in 1..Len(gen.sections) : req \in gen.sections[i].heading}
      formattingIssues ==
        (IF \E i \in 1..Len(generatedContent) : generatedContent[i] = Artifact THEN {"artifact"} ELSE {})
          \cup (IF \E i \in 1..Len(generatedContent) : generatedContent[i] = Placeholder
                THEN {"placeholder"} ELSE {})
      status ==
        IF adjustedCoverage < 80 \/ 10 * genCount < 7 * origCount \/ Cardinality(missingSections) > 2
        THEN "danger"
        ELSE IF adjustedCoverage < 95 \/ 10 * genCount < 9 * origCount
                  \/ Cardinality(missingSections) > 0 \/ formattingIssues # {}
        THEN "warning" ELSE "success"
  IN [set |-> TRUE, originalWordCount |-> origCount, generatedWordCount |-> genCount,
      coveragePercent |-> adjustedCoverage, status |-> status,
      missingSections |-> missingSections, formattingIssues |-> formattingIssues]

RECURSIVE textsUpTo(_, _)
textsUpTo(n, pieces) ==
  IF n = 0 THEN {<<>>}
  ELSE textsUpTo(n - 1, pieces) \cup {Append(t, c) : t \in textsUpTo(n - 1, pieces), c \in pieces}
Originals == textsUpTo(MaxPieces, Letters \cup {" ", "-", "<b>"})
\* The heading of a section is the set of required names that its lower-cased
\* text includes.
GeneratedDocs ==
  [title : {<<>>, <<"cat">>, <<"Cat", "-", "x">>},
   abstract : {<<>>, <<"ab", "&nbsp;", "cat">>},
   keywords : {<<>>, << <<"ab", "x">> >>},
   sections : {<<>>,
               <<[heading |-> requiredSections, content |-> <<"x", "[FIGURE REMOVED]", "cat", "x">>]>>,
               <<[heading |-> {"introduction", "method", "result"}, content |-> <<"<b>", "ab", "x", "<b>">>],
                 [heading |-> {}, content |-> <<Placeholder>>]>>,
               <<[heading |-> {"introduction"}, content |-> <<Artifact>>]>>},
   references : {<<>>, << <<"ab">>, <<"cat">> >>}]

NoStats == [set |-> FALSE, originalWordCount |-> 0, generatedWordCount |-> 0,
            coveragePercent |-> 0, status |-> "success",
            missingSections |-> {}, formattingIssues |-> {}]

InitValidate(originals, extractions) ==
  /\ original \in originals
  /\ generated \in extractions
  /\ validationStats = NoStats

Validate ==
  /\ ~validationStats.set
  /\ UNCHANGED <<pvars, rvars, cvars, lvars, avars, fvars, dvars>>
  /\ validationStats' = runValidation(original, generated)
  /\ UNCHANGED <<original, generated>>

-----------------------------------------------------------------------------
\* The session of App: login, upload, extraction, manual mode and the edits
\* of the live document   (App.tsx:53-61, 92-125, 211-351, 587-588).

MaxPending == 2

\* text.length
RECURSIVE length(_)
length(text) == IF text = <<>> THEN 0 ELSE wordLength(Head(text)) + length(Tail(text))
\* rawText.trim().length < 20   (App.tsx:292)
MinTextLength == 20

NoData == [set |-> FALSE, title |-> <<>>, abstract |-> <<>>, keywords |-> <<>>,
           sections |-> <<>>, references |-> <<>>, figures |-> <<>>, present |-> {}]

\* Variant: every line is kept.
isKeptLine_any(line) == TRUE

\* .filter(line => line.trim().length > 0)   (part_003:110)
isKeptLine(line) == length(trim(line)) > 0

\* createManualManuscript   (part_003:108-149): tags become line feeds, the
\* text is trimmed and split at the line feeds, blank lines are dropped.
createManualManuscript(text) ==
  LET cleanText == trim([i \in 1..Len(text) |->
                          IF text[i] \in {"<b>", "<img src=data:image>", "<img src=http:>"}
                          THEN "\n" ELSE text[i]])
      RECURSIVE split(_, _)
      split(rest, cur) ==
        IF rest = <<>> THEN <<cur>>
        ELSE IF Head(rest) = "\n" THEN <<cur>> \o split(Tail(rest), <<>>)
        ELSE split(Tail(rest), Append(cur, Head(rest)))
      lines == SelectSeq(split(cleanText, <<>>), isKeptLine)
      RECURSIVE joined(_)
      joined(ls) ==
        IF ls = <<>> THEN <<>>
        ELSE IF Len(ls) = 1 THEN Head(ls)
        ELSE Head(ls) \o <<"\n", "\n">> \o joined(Tail(ls))
      title == IF Len(lines) > 0 THEN lines[1] ELSE <<"Untitled Manuscript">>
      body == joined(Tail(lines))
      bodyContent == IF Len(lines) > 0 /\ body # <<>> THEN body
                     ELSE <<"Paste your manuscript content here...">>
  IN [set |-> TRUE, title |-> title, abstract |-> <<"Abstract content...">>,
      keywords |-> << <<"Keyword1">>, <<"Keyword2">> >>,
      sections |-> <<[heading |-> {}, content |-> bodyContent]>>,
      references |-> << <<"Reference 1">> >>, figures |-> <<>>, present |-> Fields]

\* What the user pastes, and the files the user chooses: html is what
\* mammoth / the FileReader yield.
AppTexts ==
  { <<>>, <<"cat">>, <<"Cat", "[FIGURE REMOVED]", "cat", "[FIGURE REMOVED]">> }
Files ==
  { [type |-> "html", html |-> <<"Cat", "<img src=http:>", "cat", "<img src=data:image>">>],
    [type |-> "docx", html |-> <<"Cat", "<img src=data:image>", "cat", "<img src=data:image>">>],
    [type |-> "txt", html |-> <<"cat">>] }

\* The documents parseManuscript resolves with: present holds the fields
\* that are defined on the object - all of them after a repaired parse
\* (part_003:212-217), those the backend sent after a direct parse
\* (part_003:199-200).
ReturnedDocs ==
  LET full == [NoData EXCEPT !.set = TRUE, !.title = <<"cat">>,
                 !.sections = <<[heading |-> requiredSections, content |-> <<"Cat", " ", "cat">>]>>,
                 !.present = Fields]
  IN { full,
       [full EXCEPT !.present = Fields \ {"keywords"}],
       [full EXCEPT !.title = <<>>, !.sections = <<[heading |-> {"method"}, content |-> <<"ab">>]>>] }
\* The messages parseManuscript rejects with   (part_003:226, 231, 251).
RejectMessages ==
  {finalMessage(le) : le \in {Undefined, Err(TooLongMsg)}}

\* The values an edit sets.
EditValues == {<<"x">>}

Task(kind, type, text, figs) == [kind |-> kind, type |-> type, text |-> text, figures |-> figs]

InitApp ==
  /\ appState = "LOGIN"
  /\ currentUser = ""
  /\ rawText = <<>>
  /\ error = Undefined
  /\ manuscriptData = NoData
  /\ pending = EmptyBag

\* handleLogin   (App.tsx:92-107)
handleLogin ==
  /\ appState = "LOGIN"
  /\ UNCHANGED <<pvars, rvars, cvars, lvars, wvars, fvars, dvars>>
  /\ \E outcome \in {"email", "password", "ok"} :
       IF outcome = "ok"
       THEN /\ currentUser' = "editor@jbsh"
            /\ appState' = "UPLOAD"
            /\ error' = Undefined
       ELSE /\ error' = Err(<<"Access Denied", outcome>>)
            /\ UNCHANGED <<currentUser, appState>>
  /\ UNCHANGED <<rawText, manuscriptData, pending>>

\* handleLogout   (App.tsx:109-116)
handleLogout ==
  /\ appState # "LOGIN"
  /\ UNCHANGED <<pvars, rvars, cvars, lvars, wvars, fvars, dvars>>
  /\ appState' = "LOGIN"
  /\ manuscriptData' = NoData
  /\ rawText' = <<>>
  /\ currentUser' = ""
  /\ UNCHANGED <<error, pending>>

\* handleGoHome   (App.tsx:118-125)
handleGoHome ==
  /\ appState # "LOGIN"
  /\ UNCHANGED <<pvars, rvars, cvars, lvars, fvars, dvars, original, generated>>
  /\ appState' = "UPLOAD"
  /\ manuscriptData' = NoData
  /\ rawText' = <<>>
  /\ error' = Undefined
  /\ validationStats' = NoStats
  /\ UNCHANGED <<currentUser, pending>>

\* The Start Over button   (App.tsx:727)
StartOver ==
  /\ appState \in {"METADATA_REVIEW", "PREVIEW"}
  /\ UNCHANGED <<pvars, rvars, cvars, lvars, wvars, fvars, dvars>>
  /\ appState' = "UPLOAD"
  /\ manuscriptData' = NoData
  /\ rawText' = <<>>
  /\ UNCHANGED <<currentUser, error, pending>>

\* The paste box: onChange={(e) => setRawText(e.target.value)}   (App.tsx:785)
SetRawText ==
  /\ appState = "UPLOAD"
  /\ UNCHANGED <<pvars, rvars, cvars, lvars, wvars, fvars, dvars>>
  /\ \E text \in AppTexts \ {rawText} : rawText' = text
  /\ UNCHANGED <<appState, currentUser, error, manuscriptData, pending>>

\* handleFileUpload   (App.tsx:211-218, 252-254, 278-280, 287): the read of
\* the chosen file starts.
handleFileUpload ==
  /\ appState = "UPLOAD"
  /\ UNCHANGED <<pvars, rvars, cvars, lvars, wvars, fvars, dvars>>
  /\ BagCardinality(pending) < MaxPending
  /\ \E f \in Files : pending' = pending (+) SetToBag({Task("read", f.type, f.html, <<>>)})
  /\ UNCHANGED <<appState, currentUser, rawText, error, manuscriptData>>

\* processManuscript up to its await   (App.tsx:324-329); old is the callback
\* that runs it, removed from the pending ones.
processManuscript(old, text, initialFigures) ==
  /\ appState' = "PROCESSING"
  /\ error' = Undefined
  /\ validationStats' = NoStats
  /\ pending' = (pending (-) old) (+) SetToBag({Task("extract", "", text, initialFigures)})
  /\ UNCHANGED <<original, generated>>

\* reader.onload   (App.tsx:219-251, 255-277, 281-286).  The images of the
\* document get as id their position n = index + 1 among all the images when
\* their source is a data URI;
\* the text goes on with every image replaced by the removed-figure mark.
\* Nothing of the session is read or written before mammoth has converted the
\* file, so that the conversion is part of this step.
FileLoaded ==
  \E t \in BagToSet(pending) :
    /\ t.kind = "read"
    /\ UNCHANGED <<pvars, rvars, cvars, lvars, fvars, dvars>>
    /\ LET isImg(p) == p \in {"<img src=data:image>", "<img src=http:>"}
           imgs == SelectSeq(t.text, isImg)
           extractedFigures ==
             [k \in 1..Len(SelectSeq(imgs, LAMBDA p : p = "<img src=data:image>")) |->
                [id |-> CHOOSE n \in 1..Len(imgs) :
                          /\ imgs[n] = "<img src=data:image>"
                          /\ Len(SelectSeq(SubSeq(imgs, 1, n),
                                           LAMBDA p : p = "<img src=data:image>")) = k]]
           optimizedText == [i \in 1..Len(t.text) |->
                               IF isImg(t.text[i]) THEN "[FIGURE REMOVED]" ELSE t.text[i]]
       IN \/ /\ t.type = "docx"
             /\ error' = Err(<<"Failed to read DOCX file. Is it corrupted?">>)
             /\ pending' = pending (-) SetToBag({t})
             /\ UNCHANGED <<appState, rawText, wvars>>
          \/ /\ t.type \in {"docx", "html"}
             /\ rawText' = optimizedText
             /\ processManuscript(SetToBag({t}), optimizedText, extractedFigures)
          \/ /\ t.type = "txt"
             /\ rawText' = t.text
             /\ processManuscript(SetToBag({t}), t.text, <<>>)
    /\ UNCHANGED <<currentUser, manuscriptData>>

\* handleManualText   (App.tsx:291-297)
handleManualText ==
  /\ appState = "UPLOAD"
  /\ UNCHANGED <<pvars, rvars, cvars, lvars, fvars, dvars>>
  /\ IF length(trim(rawText)) < MinTextLength
     THEN /\ error' = Err(<<"Text is too short. Please paste the full manuscript.">>)
          /\ UNCHANGED <<appState, pending, wvars>>
     ELSE /\ BagCardinality(pending) < MaxPending
          /\ processManuscript(EmptyBag, rawText, <<>>)
  /\ UNCHANGED <<currentUser, rawText, manuscriptData>>

\* handleManualProcessing up to its timer   (App.tsx:299-306)
handleManualProcessing ==
  /\ appState = "UPLOAD"
  /\ UNCHANGED <<pvars, rvars, cvars, lvars, wvars, fvars, dvars>>
  /\ IF length(trim(rawText)) < 1
     THEN /\ error' = Err(<<"Please paste or upload content first.">>)
          /\ UNCHANGED <<appState, pending>>
     ELSE /\ BagCardinality(pending) < MaxPending
          /\ error' = Undefined
          /\ appState' = "PROCESSING"
          /\ pending' = pending (+) SetToBag({Task("manual", "", rawText, <<>>)})
  /\ UNCHANGED <<currentUser, rawText, manuscriptData>>

\* The timer of handleManualProcessing fires   (App.tsx:306-321); rawText is
\* the one of the render that started the timer.
ManualTimer ==
  \E t \in BagToSet(pending) :
    /\ t.kind = "manual"
    /\ UNCHANGED <<pvars, rvars, cvars, lvars, fvars, dvars, generated>>
    /\ LET words == Len(SelectSeq(t.text, LAMBDA p : p = " ")) + 1 IN
       validationStats' = [set |-> TRUE, originalWordCount |-> words, generatedWordCount |-> words,
                           coveragePercent |-> 100, status |-> "success",
                           missingSections |-> {}, formattingIssues |-> {"manual"}]
    /\ original' = t.text
    /\ manuscriptData' = createManualManuscript(t.text)
    /\ appState' = "METADATA_REVIEW"
    /\ pending' = pending (-) SetToBag({t})
    /\ UNCHANGED <<currentUser, rawText, error>>

\* Variant: the catch block leaves the screen as it is.
parseSettled_keepScreen(t, out) ==
  LET data == [out.data EXCEPT
                 !.title = [i \in 1..Len(@) |-> IF @[i] = "cat" THEN "Cat" ELSE @[i]],
                 !.figures = IF Len(t.figures) > 0 THEN t.figures ELSE <<>>]
      validationThrows == ~({"keywords", "sections", "references"} \subseteq data.present)
      caught == IF out.returned THEN <<"TypeError", "undefined is not iterable">> ELSE out.message
  IN /\ t.kind = "extract"
     /\ pending' = pending (-) SetToBag({t})
     /\ IF out.returned /\ ~validationThrows
        THEN /\ validationStats' = runValidation(t.text, data)
             /\ original' = t.text
             /\ manuscriptData' = data
             /\ appState' = "METADATA_REVIEW"
             /\ UNCHANGED error
        ELSE /\ error' = Err(IF caught # <<>> THEN caught ELSE <<"Failed to process manuscript">>)
             /\ UNCHANGED <<appState, manuscriptData, validationStats, original>>
     /\ UNCHANGED <<currentUser, rawText, generated>>

\* processManuscript from its await on   (App.tsx:329-350), for the pending
\* extraction t: parseManuscript has resolved with out.data or rejected with
\* out.message.  runValidation spreads keywords and references and maps over
\* sections (App.tsx:145-147, 164): it throws when one of them is undefined,
\* and the throw lands in the catch block like a rejection.
parseSettled(t, out) ==
  LET data == [out.data EXCEPT
                 !.title = [i \in 1..Len(@) |-> IF @[i] = "cat" THEN "Cat" ELSE @[i]],
                 !.figures = IF Len(t.figures) > 0 THEN t.figures ELSE <<>>]
      validationThrows == ~({"keywords", "sections", "references"} \subseteq data.present)
      caught == IF out.returned THEN <<"TypeError", "undefined is not iterable">> ELSE out.message
  IN /\ t.kind = "extract"
     /\ pending' = pending (-) SetToBag({t})
     /\ IF out.returned /\ ~validationThrows
        THEN /\ validationStats' = runValidation(t.text, data)
             /\ original' = t.text
             /\ manuscriptData' = data
             /\ appState' = "METADATA_REVIEW"
             /\ UNCHANGED error
        ELSE /\ error' = Err(IF caught # <<>> THEN caught ELSE <<"Failed to process manuscript">>)
             /\ appState' = "UPLOAD"
             /\ UNCHANGED <<manuscriptData, validationStats, original>>
     /\ UNCHANGED <<currentUser, rawText, generated>>

Outcomes ==
  {[returned |-> TRUE, data |-> d, message |-> <<>>] : d \in ReturnedDocs}
    \cup {[returned |-> FALSE, data |-> NoData, message |-> m] : m \in RejectMessages}

ParseSettles ==
  /\ UNCHANGED <<pvars, rvars, cvars, lvars, fvars, dvars>>
  /\ \E t \in BagToSet(pending), out \in Outcomes : parseSettled(t, out)

\* handleUpdateField   (App.tsx:587), on the title input of the review form
\* (App.tsx:821)
handleUpdateField ==
  /\ appState = "METADATA_REVIEW"
  /\ manuscriptData.set
  /\ UNCHANGED <<pvars, rvars, cvars, lvars, wvars, fvars, dvars>>
  /\ \E value \in EditValues \ {manuscriptData.title} :
       manuscriptData' = [manuscriptData EXCEPT !.title = value]
  /\ UNCHANGED <<appState, currentUser, rawText, error, pending>>

\* handleUpdateSection   (App.tsx:588), from the editable preview (App.tsx:857)
handleUpdateSection ==
  /\ appState = "PREVIEW"
  /\ manuscriptData.set
  /\ UNCHANGED <<pvars, rvars, cvars, lvars, wvars, fvars, dvars>>
  /\ \E index \in 1..Len(manuscriptData.sections) :
     \E newContent \in EditValues \ {manuscriptData.sections[index].content} :
       manuscriptData' = [manuscriptData EXCEPT !.sections[index].content = newContent]
  /\ UNCHANGED <<appState, currentUser, rawText, error, pending>>

\* setAppState(AppState.PREVIEW) and back   (App.tsx:845, 709)
TogglePreview ==
  /\ appState \in {"METADATA_REVIEW", "PREVIEW"}
  /\ manuscriptData.set
  /\ UNCHANGED <<pvars, rvars, cvars, lvars, wvars, fvars, dvars>>
  /\ appState' = IF appState = "PREVIEW" THEN "METADATA_REVIEW" ELSE "PREVIEW"
  /\ UNCHANGED <<currentUser, rawText, error, manuscriptData, pending>>

-----------------------------------------------------------------------------
\* The front matter: manual mode's document and the affiliation indices.

MaxTextLen == 5
MaxAuthors == 3
MaxRenders == 2

\* uniqueAffiliations = Array.from(new Set(data.authors.map(a => a.affiliation)))
\* (part_000:74): a Set keeps the first occurrence of each value, in order.
RECURSIVE uniqueAffiliations(_, _)
uniqueAffiliations(affiliations, seen) ==
  IF affiliations = <<>> THEN seen
  ELSE uniqueAffiliations(Tail(affiliations),
         IF \E i \in 1..Len(seen) : seen[i] = Head(affiliations)
         THEN seen ELSE Append(seen, Head(affiliations)))

\* Variant: the affiliations are compared without regard to case.
getAffiliationIndex_ignoreCase(unique, affiliation) ==
  LET lower(a) == IF a = "Univ A" THEN "univ a" ELSE a
      at == {i \in 1..Len(unique) : lower(unique[i]) = lower(affiliation)}
  IN IF at = {} THEN 0 ELSE CHOOSE i \in at : \A j \in at : i <= j

\* uniqueAffiliations.indexOf(affiliation) + 1   (part_000:75-77)
getAffiliationIndex(unique, affiliation) ==
  LET at == {i \in 1..Len(unique) : unique[i] = affiliation}
  IN IF at = {} THEN 0 ELSE CHOOSE i \in at : \A j \in at : i <= j

\* authorsWithIndices of ArticlePreview   (part_002:30-44): the list of
\* unique affiliations grows while the authors are mapped.
RECURSIVE authorsWithIndices(_, _)
authorsWithIndices(affiliations, uniqueAffs) ==
  IF affiliations = <<>> THEN <<>>
  ELSE LET affIndex == getAffiliationIndex(uniqueAffs, Head(affiliations)) - 1
           grown == IF affIndex = -1 THEN Append(uniqueAffs, Head(affiliations)) ELSE uniqueAffs
       IN <<(IF affIndex = -1 THEN Len(grown) - 1 ELSE affIndex) + 1>>
            \o authorsWithIndices(Tail(affiliations), grown)

InitFront(inputs) ==
  /\ \E input \in inputs : manualText = input[1] /\ authors = input[2]
  /\ manualDoc = NoData
  /\ affIndices = <<>>

\* createManualManuscript(rawText)   (App.tsx:307)
CreateManual ==
  /\ ~manualDoc.set
  /\ UNCHANGED <<pvars, rvars, cvars, lvars, wvars, avars, dvars>>
  /\ manualDoc' = createManualManuscript(manualText)
  /\ UNCHANGED <<manualText, authors, affIndices>>

\* One render of the author line: the superscripts of LayoutPreview
\* (part_000:245) and of ArticlePreview (part_002:30-44).
RenderAuthors ==
  /\ Len(affIndices) < MaxRenders
  /\ UNCHANGED <<pvars, rvars, cvars, lvars, wvars, avars, dvars>>
  /\ affIndices' = Append(affIndices,
       [layout |-> [i \in 1..Len(authors) |->
                      getAffiliationIndex(uniqueAffiliations(authors, <<>>), authors[i])],
        article |-> authorsWithIndices(authors, <<>>)])
  /\ UNCHANGED <<manualText, manualDoc, authors>>

-----------------------------------------------------------------------------
\* The ArticleData editor's figures (App.tsx:1612-1653) and the body loop of
\* generateDocx (src/services/docxGenerator.ts:520-716).  A line of the content
\* is a sequence of lexemes; a File is named by its number and by what reading
\* it gives.

MaxUploads == 6
MaxLines == 3

FigId(n) == "figure-" \o ToString(n)

\* reindexFigures   (App.tsx:1612-1627): the figure at position index + 1 gets
\* the id figure-<index + 1> and the name Figure <index + 1> followed by what
\* followed the number in its old name.
reindexFigures(figs) ==
  [index \in 1..Len(figs) |->
     [figs[index] EXCEPT !.id = FigId(index), !.name = [num |-> index, rest |-> @.rest]]]

\* handleFigureUpload   (App.tsx:1629-1647): the chosen files, in the order of
\* their names, are appended and the list is reindexed.
handleFigureUpload ==
  \E count \in 1..2 :
    /\ uploads + count <= MaxUploads
    /\ UNCHANGED <<pvars, rvars, cvars, lvars, wvars, avars, fvars>>
    /\ LET newFiguresRaw == [k \in 1..count |->
                               [id |-> "temp", name |-> [num |-> 0, rest |-> <<>>],
                                file |-> [n |-> uploads + k, read |-> "ok"]]]
       IN dataFigures' = reindexFigures(dataFigures \o newFiguresRaw)
    /\ uploads' = uploads + count
    /\ UNCHANGED <<docLines, lineNo, paragraphBuffer, tableBuffer, inTable, inReferences,
                   contentChildren, finished>>

\* removeFigure(id)   (App.tsx:1649-1653)
removeFigure ==
  \E k \in 1..Len(dataFigures) :
    /\ UNCHANGED <<pvars, rvars, cvars, lvars, wvars, avars, fvars>>
    /\ dataFigures' = reindexFigures(SelectSeq(dataFigures, LAMBDA f : f.id # dataFigures[k].id))
    /\ UNCHANGED <<uploads, docLines, lineNo, paragraphBuffer, tableBuffer, inTable,
                   inReferences, contentChildren, finished>>

\* The lines a content is made of: headings, table rows, image references,
\* a formula, a blank line, plain text, and a line with a bar that is too
\* short to be a table row.
DocLines ==
  { <<"# ", "Intro">>, <<"## ", "REFERENCES">>,
    <<"|", "a", "|", "b", "|">>, <<"|", "-", "|", "-", "|">>,
    <<"![a](figure-1)">>, <<"![a](figure-2)">>, <<"![a](figure-3)">>, <<"![a](figure-9)">>,
    <<"$$", "x", "$$">>, <<>>, <<" ">>, <<"cat">>, <<"a", "|", "b">> }
\* data.figures of the exported article: reading the first file gives its
\* bytes, reading the second fails (getImageData answers an empty buffer,
\* docxGenerator.ts:55-58), the bytes of the third make ImageRun throw.
DocFigures ==
  [k \in 1..3 |-> [id |-> FigId(k), name |-> [num |-> k, rest |-> <<>>],
                   file |-> [n |-> k, read |-> <<"ok", "empty", "throws">>[k]]]]

InitArticle(contents) ==
  /\ docLines \in contents
  /\ dataFigures = (IF contents = {<<>>} THEN <<>> ELSE DocFigures)
  /\ uploads = 0
  /\ lineNo = 1
  /\ paragraphBuffer = <<>>
  /\ tableBuffer = <<>>
  /\ inTable = FALSE
  /\ inReferences = FALSE
  /\ contentChildren = <<>>
  /\ finished = FALSE

\* A block pushed on contentChildren: its kind, the lines of the content it
\* was built from, and whether it has the hanging indent of a reference.
Block(kind, from, hanging) == [kind |-> kind, lines |-> from, hanging |-> hanging]

\* flushParagraph   (docxGenerator.ts:530-567); st holds the loop's variables.
flushParagraph(st) ==
  IF Len(st.paragraphBuffer) = 0 THEN st
  ELSE [st EXCEPT !.contentChildren = Append(@, Block("paragraph", st.paragraphBuffer, st.inReferences)),
                  !.paragraphBuffer = <<>>]

\* parseMarkdownTable   (docxGenerator.ts:183-196): null for a block of fewer
\* than two lines and for a block whose rows are all separator rows.
parseMarkdownTable(tableBlock) ==
  LET isSeparator(row) == \A k \in 1..Len(row) : row[k] \in {"|", "-"}
      dataRows == SelectSeq(tableBlock, LAMBDA row : ~isSeparator(row))
  IN IF Len(tableBlock) < 2 \/ Len(dataRows) = 0
     THEN [isNull |-> TRUE, rows |-> <<>>]
     ELSE [isNull |-> FALSE, rows |-> dataRows]

\* flushTable   (docxGenerator.ts:569-576)
flushTable(st) ==
  LET table == parseMarkdownTable(st.tableBuffer) IN
  [st EXCEPT !.contentChildren = IF Len(st.tableBuffer) > 0 /\ ~table.isNull
                                 THEN Append(@, Block("table", st.tableBuffer, FALSE)) ELSE @,
             !.tableBuffer = <<>>,
             !.inTable = FALSE]

\* line.toUpperCase().includes("REFERENCES") || ...includes("DAFTAR PUSTAKA")
\* (docxGenerator.ts:584)
mentionsReferences(line) == includes(line, "REFERENCES") \/ includes(line, "DAFTAR PUSTAKA")

\* Variant: inReferences follows the heading just read.
sectionHeader_reset(st, line) ==
  LET flushed == flushTable(flushParagraph(st)) IN
  [flushed EXCEPT !.inReferences = mentionsReferences(line),
                  !.contentChildren = Append(@, Block("heading", <<line>>, FALSE))]

\* SECTION HEADERS   (docxGenerator.ts:581-598)
sectionHeader(st, line) ==
  LET flushed == flushTable(flushParagraph(st)) IN
  [flushed EXCEPT !.inReferences = @ \/ mentionsReferences(line),
                  !.contentChildren = Append(@, Block("heading", <<line>>, FALSE))]

\* One pass of the loop body on lines[i].trim()   (docxGenerator.ts:578-713).
processLine(st, figs, line) ==
  LET startsWithHash == line # <<>> /\ Head(line) \in {"# ", "## ", "### "}
      isImage(lex) == lex \in {"![a](figure-1)", "![a](figure-2)", "![a](figure-3)", "![a](figure-9)"}
      figIdOf(lex) == CASE lex = "![a](figure-1)" -> FigId(1) [] lex = "![a](figure-2)" -> FigId(2)
                        [] lex = "![a](figure-3)" -> FigId(3) [] OTHER -> FigId(9)
      imgMatch == SelectSeq(line, isImage)
      \* else if (inTable) flushTable()
      afterTable == IF st.inTable THEN flushTable(st) ELSE st
  IN
  IF startsWithHash THEN sectionHeader(st, line)
  ELSE IF includes(line, "|") /\ length(line) > 3
  THEN \* TABLE DETECTION
       [flushParagraph(st) EXCEPT !.inTable = TRUE, !.tableBuffer = Append(@, line)]
  ELSE IF imgMatch # <<>>
  THEN \* IMAGE DETECTION
       LET flushed == flushTable(flushParagraph(afterTable))
           found == {k \in 1..Len(figs) : figs[k].id = figIdOf(imgMatch[1])}
           figure == figs[CHOOSE k \in found : \A other \in found : k <= other]
       IN IF found = {} \/ figure.file.read = "empty" THEN flushed
          ELSE IF figure.file.read = "throws"
          THEN [flushed EXCEPT !.contentChildren = Append(@, Block("imageError", <<line>>, FALSE))]
          ELSE [flushed EXCEPT !.contentChildren =
                  @ \o <<Block("image", <<line>>, FALSE), Block("caption", <<>>, FALSE)>>]
  ELSE IF line # <<>> /\ Head(line) = "$$" /\ Last(line) = "$$"
  THEN \* MATH / FORMULA DETECTION
       [flushTable(flushParagraph(afterTable)) EXCEPT
          !.contentChildren = Append(@, Block("formula", <<line>>, FALSE))]
  ELSE IF line = <<>>
  THEN \* EMPTY LINES
       flushParagraph(afterTable)
  ELSE IF afterTable.inReferences
  THEN \* SPECIAL HANDLING FOR REFERENCES
       flushParagraph([flushParagraph(afterTable) EXCEPT !.paragraphBuffer = Append(@, line)])
  ELSE \* NORMAL TEXT ACCUMULATION
       [afterTable EXCEPT !.paragraphBuffer = Append(@, line)]

\* The loop's variables as one record, and their assignment.
LoopState ==
  [paragraphBuffer |-> paragraphBuffer, tableBuffer |-> tableBuffer, inTable |-> inTable,
   inReferences |-> inReferences, contentChildren |-> contentChildren]
SetLoopState(st) ==
  /\ paragraphBuffer' = st.paragraphBuffer
  /\ tableBuffer' = st.tableBuffer
  /\ inTable' = st.inTable
  /\ inReferences' = st.inReferences
  /\ contentChildren' = st.contentChildren

\* for (let i = 0; i < lines.length; i++) { ... }   (docxGenerator.ts:578-713)
ProcessLine ==
  /\ lineNo <= Len(docLines)
  /\ UNCHANGED <<pvars, rvars, cvars, lvars, wvars, avars, fvars>>
  /\ SetLoopState(processLine(LoopState, dataFigures, trim(docLines[lineNo])))
  /\ lineNo' = lineNo + 1
  /\ UNCHANGED <<dataFigures, uploads, docLines, finished>>

\* Final flush   (docxGenerator.ts:715-716)
FinalFlush ==
  /\ lineNo = Len(docLines) + 1
  /\ ~finished
  /\ UNCHANGED <<pvars, rvars, cvars, lvars, wvars, avars, fvars>>
  /\ SetLoopState(flushTable(flushParagraph(LoopState)))
  /\ finished' = TRUE
  /\ UNCHANGED <<dataFigures, uploads, docLines, lineNo>>

\* parseManuscript alone.
Next == IssueCall \/ BackendThrows \/ BackendReturns \/ Wake
NoManuscript == [title |-> <<>>, abstract |-> <<>>, keywords |-> <<>>,
                 sections |-> <<>>, references |-> <<>>]
Init ==
  /\ InitParse /\ InitRepair({<<>>})
  /\ InitClassify({<<>>}) /\ InitLayout({<<>>}) /\ InitValidate({<<>>}, {NoManuscript})
  /\ InitApp /\ InitFront({<< <<>>, <<>> >>}) /\ InitArticle({<<>>})
Spec == Init /\ [][Next]_vars

\* parseManuscript with a backend and a timer that answer: a call that was
\* issued settles, a sleep that was started elapses, and the loop itself runs
\* on (the await of part_003:183 and of part_003:241 resume).
ParseFairness ==
  /\ WF_vars(IssueCall)
  /\ WF_vars(BackendThrows \/ BackendReturns)
  /\ WF_vars(Wake)
SpecSettling == Init /\ [][Next]_vars /\ ParseFairness

\* attemptJsonRepair alone, on a text as the backend streams it.
NextRepair == Emit \/ Repair \/ RepairAgain
SpecRepair == Init /\ [][NextRepair]_vars

\* attemptJsonRepair on any text over Chars, well-formed or not.
MaxInputLen == 4
NextRepairAny == Repair \/ RepairAgain
InitAnyText ==
  /\ InitParse /\ InitRepair(textsUpTo(MaxInputLen, Chars))
  /\ InitClassify({<<>>}) /\ InitLayout({<<>>}) /\ InitValidate({<<>>}, {NoManuscript})
  /\ InitApp /\ InitFront({<< <<>>, <<>> >>}) /\ InitArticle({<<>>})
SpecRepairAny == InitAnyText /\ [][NextRepairAny]_vars

\* The classification of one block: the text is drawn at the start, then shown
\* both ways, exported and tested.
NextClassify == ShowPlain \/ ShowMarkup \/ ExportBlock \/ TestEquation
InitBlocks ==
  /\ InitParse /\ InitRepair({<<>>})
  /\ InitClassify(BlockTexts) /\ InitLayout({<<>>}) /\ InitValidate({<<>>}, {NoManuscript})
  /\ InitApp /\ InitFront({<< <<>>, <<>> >>}) /\ InitArticle({<<>>})
SpecClassify == InitBlocks /\ [][NextClassify]_vars

\* The editor after an extraction, preview not editable: figures are added,
\* removed and moved, the file is downloaded.
NextLayout == AddFigure \/ RemoveFigure \/ MoveFigure \/ DownloadDocx
InitEditor ==
  /\ InitParse /\ InitRepair({<<>>}) /\ InitClassify({<<>>})
  /\ InitLayout(UNION {[1..n -> SectionContents] : n \in 1..MaxSections})
  /\ InitValidate({<<>>}, {NoManuscript})
  /\ InitApp /\ InitFront({<< <<>>, <<>> >>}) /\ InitArticle({<<>>})
SpecLayout == InitEditor /\ [][NextLayout]_vars

\* The same with an editable preview, on a manuscript of one section: the
\* section can be focused and left.
NextEdit == AddFigure \/ RemoveFigure \/ MoveFigure \/ DownloadDocx \/ BlurSection
InitEdit ==
  /\ InitParse /\ InitRepair({<<>>}) /\ InitClassify({<<>>})
  /\ InitLayout([1..1 -> SectionContents])
  /\ InitValidate({<<>>}, {NoManuscript})
  /\ InitApp /\ InitFront({<< <<>>, <<>> >>}) /\ InitArticle({<<>>})
SpecEdit == InitEdit /\ [][NextEdit]_vars

\* runValidation alone, on a drawn pair of original text and extraction.
NextValidate == Validate
InitPairs ==
  /\ InitParse /\ InitRepair({<<>>}) /\ InitClassify({<<>>}) /\ InitLayout({<<>>})
  /\ InitValidate(Originals, GeneratedDocs)
  /\ InitApp /\ InitFront({<< <<>>, <<>> >>}) /\ InitArticle({<<>>})
SpecValidate == InitPairs /\ [][NextValidate]_vars

\* The session: the user signs in, pastes or uploads, runs the extraction or
\* manual mode, edits the document; callbacks run when their event arrives.
NextApp ==
  \/ handleLogin \/ handleLogout \/ handleGoHome \/ StartOver \/ SetRawText
  \/ handleFileUpload \/ FileLoaded \/ handleManualText \/ handleManualProcessing
  \/ ManualTimer \/ ParseSettles \/ handleUpdateField \/ handleUpdateSection \/ TogglePreview
SpecApp == Init /\ [][NextApp]_vars

\* The session just after Home was pressed during the extraction of
\* EarlierText (signed in, upload screen, everything cleared by handleGoHome,
\* the extraction still pending): the user pastes another text and runs the
\* extraction or manual mode on it.
EarlierText == <<"Cat", "[FIGURE REMOVED]", "Cat", "[FIGURE REMOVED]">>
EarlierExtraction == Task("extract", "", EarlierText, <<>>)
NextAfterHome ==
  \/ SetRawText \/ handleManualText \/ handleManualProcessing \/ ManualTimer
  \/ ParseSettles \/ handleUpdateField \/ TogglePreview
InitAfterHome ==
  /\ InitParse /\ InitRepair({<<>>}) /\ InitClassify({<<>>}) /\ InitLayout({<<>>})
  /\ InitValidate({<<>>}, {NoManuscript}) /\ InitFront({<< <<>>, <<>> >>}) /\ InitArticle({<<>>})
  /\ appState = "UPLOAD"
  /\ currentUser = "editor@jbsh"
  /\ rawText = <<>>
  /\ error = Undefined
  /\ manuscriptData = NoData
  /\ pending = SetToBag({EarlierExtraction})
SpecAfterHome == InitAfterHome /\ [][NextAfterHome]_vars

\* handleAddFigure up to reader.readAsDataURL(file)   (App.tsx:591): the read
\* of the chosen image starts.  The onload closure holds the manuscriptData of
\* the render in which the file was chosen; the pending read carries it.
ChooseFigure ==
  /\ ~screen.crashed
  /\ UNCHANGED <<pvars, rvars, cvars, lvars, wvars, fvars, dvars>>
  /\ Len(figures) < MaxFigures
  /\ BagCardinality(pending) < MaxPending
  /\ pending' = pending (+) SetToBag({Task("figure", "", sections, figures)})
  /\ UNCHANGED <<appState, currentUser, rawText, error, manuscriptData>>

\* reader.onload of handleAddFigure   (App.tsx:591): the new figure gets the
\* id length + 1 of the captured list and
\* setManuscriptData({...manuscriptData, figures: [...manuscriptData.figures, newFigure]})
\* stores the captured document with the figure appended.
FigureLoaded ==
  \E t \in BagToSet(pending) :
    /\ t.kind = "figure"
    /\ UNCHANGED <<pvars, rvars, cvars, wvars, fvars, dvars>>
    /\ pending' = pending (-) SetToBag({t})
    /\ setManuscriptData(t.text, Append(t.figures, Figure(ToString(Len(t.figures) + 1))))
    /\ UNCHANGED <<blurs, appState, currentUser, rawText, error, manuscriptData>>

\* The editor with figure files read in the background: between the choice
\* of a file and its onload the user removes figures, edits the section,
\* chooses another file.
NextUpload == ChooseFigure \/ FigureLoaded \/ RemoveFigure \/ BlurSection
SpecUpload == InitEdit /\ [][NextUpload]_vars

\* The figures tab of the ArticleData editor: files are added and figures
\* removed.
NextFigures == handleFigureUpload \/ removeFigure
SpecFigures == Init /\ [][NextFigures]_vars

\* The body loop of generateDocx on a drawn content.
NextDocx == ProcessLine \/ FinalFlush
InitContent ==
  /\ InitParse /\ InitRepair({<<>>}) /\ InitClassify({<<>>}) /\ InitLayout({<<>>})
  /\ InitValidate({<<>>}, {NoManuscript}) /\ InitApp /\ InitFront({<< <<>>, <<>> >>})
  /\ InitArticle(textsUpTo(MaxLines, DocLines) \ {<<>>})
SpecDocx == InitContent /\ [][NextDocx]_vars

\* The front matter of a drawn text and of a drawn list of affiliations.
NextFront == CreateManual \/ RenderAuthors
InitFrontMatter ==
  /\ InitParse /\ InitRepair({<<>>}) /\ InitClassify({<<>>}) /\ InitLayout({<<>>})
  /\ InitValidate({<<>>}, {NoManuscript}) /\ InitApp /\ InitArticle({<<>>})
  /\ InitFront({<<t, <<>> >> : t \in textsUpTo(MaxTextLen, {"cat", " ", "\n", "<b>"})}
                 \cup {<< <<>>, a>> : a \in textsUpTo(MaxAuthors, {"Univ A", "univ a", "Univ B"})})
SpecFront == InitFrontMatter /\ [][NextFront]_vars

(***************************************************************************)
(* Properties of parseManuscript                                           *)
(***************************************************************************)
Idx == 1..Len(trace)
CallIdx == {i \in Idx : trace[i].ev = "call"}
\* The first call issued after position i, 0 when there is none.
NextCall(i) ==
  IF \E j \in CallIdx : j > i
  THEN CHOOSE j \in CallIdx : j > i /\ \A k \in CallIdx : k > i => j <= k
  ELSE 0
Has(msg, marker) == \E i \in 1..Len(msg) : msg[i] = marker
RateLimited(msg) == Has(msg, "429") \/ Has(msg, "RESOURCE_EXHAUSTED")
Overloaded(msg) == Has(msg, "503")

\* The case of C1 at position j: model B's first call resolved with JSON that
\* parses and holds title and sections, and every call to model A before it
\* had failed with a rate-limit / overload error.
C1_Case(j) ==
  /\ trace[j].ev = "settle" /\ trace[j].model = 2 /\ trace[j].attempt = 1
  /\ trace[j].kind = "json" /\ {"title", "sections"} \subseteq trace[j].present
  /\ \A i \in 1..(j - 1) :
       (trace[i].ev = "settle" /\ trace[i].model = 1) =>
         (trace[i].kind = "error" /\ (RateLimited(trace[i].msg) \/ Overloaded(trace[i].msg)))

\* C1: when every call to model A failed retryably and the first call to
\* model B returned parseable JSON with title and sections, the run has
\* returned the document built from B's response and no call follows it.
C1_FallbackReturnsB ==
  \A j \in Idx : C1_Case(j) =>
    /\ pc = "returned"
    /\ result.via = "direct" /\ result.model = 2 /\ result.attempt = 1
    /\ result.present = trace[j].present /\ result.placeholder = {}
    /\ \A k \in (j + 1)..Len(trace) : trace[k].ev # "call"

C1_Witness ==
  /\ \E j \in Idx : C1_Case(j)
  /\ Cardinality(CallIdx) = 3
  /\ pc = "returned"

\* C2: calls are issued one at a time (each call is settled before the next
\* is issued), the first call is attempt 1 of the first model, and each
\* further call is either the next attempt of the same model or attempt 1 of
\* the next model; attempts never exceed the per-model maximum.
C2_StrictOrder ==
  /\ \A i \in CallIdx :
       /\ trace[i].model \in 1..NumModels /\ trace[i].attempt \in 1..MaxAttempts
       /\ i < Len(trace) => (trace[i + 1].ev = "settle" /\ trace[i + 1].model = trace[i].model
                                /\ trace[i + 1].attempt = trace[i].attempt)
       /\ (i = Len(trace)) <=> (pc = "calling" /\ \A k \in CallIdx : k <= i)
       /\ LET n == NextCall(i) IN
          n # 0 => \/ trace[n].model = trace[i].model /\ trace[n].attempt = trace[i].attempt + 1
                   \/ trace[n].model = trace[i].model + 1 /\ trace[n].attempt = 1
  /\ CallIdx # {} =>
       LET f == CHOOSE i \in CallIdx : \A k \in CallIdx : i <= k IN
       trace[f].model = 1 /\ trace[f].attempt = 1

C2_Witness ==
  /\ Cardinality(CallIdx) = NumModels * MaxAttempts
  /\ \E i \in CallIdx : trace[i].model = 2 /\ trace[i].attempt = 2
  /\ \E i \in CallIdx : trace[i].model = 1 /\ trace[i].attempt = 2

\* C3 (as claimed): once the repaired text of a model's response has failed
\* to parse, no further call goes to that model; the next call, if any, is
\* attempt 1 of the next model.
C3_AbandonAfterRepairFailure ==
  \A i \in Idx : trace[i].ev = "repairFailed" =>
    /\ \A k \in CallIdx : k > i => trace[k].model # trace[i].model
    /\ LET n == NextCall(i) IN
       n # 0 => (trace[n].model = trace[i].model + 1 /\ trace[n].attempt = 1)

\* C4 (as claimed): a backend failure whose message carries 503, 429 or
\* RESOURCE_EXHAUSTED, on an attempt that is not the model's last, is followed
\* by a backoff sleep and the next call goes to the same model.
C4_MarkedFailuresRetried ==
  \A i \in Idx :
    (/\ trace[i].ev = "settle" /\ trace[i].kind = "error"
     /\ (RateLimited(trace[i].msg) \/ Overloaded(trace[i].msg))
     /\ trace[i].attempt < MaxAttempts) =>
      /\ i + 2 <= Len(trace) /\ trace[i + 2].ev = "sleep"
      /\ LET n == NextCall(i) IN n # 0 => trace[n].model = trace[i].model

\* C5 (as claimed): a returned document has a title and a sections field.
C5_ReturnedHasTitleAndSections ==
  pc = "returned" => {"title", "sections"} \subseteq (result.present \cup result.placeholder)

\* The last failure of the run: the most recent entry that reports an error.
FailIdx == {i \in Idx : trace[i].ev \in {"caught", "repairFailed"}}
LastFail == CHOOSE i \in FailIdx : \A k \in FailIdx : k <= i
RejectIdx == {i \in Idx : trace[i].ev = "reject"}
C6_RejectsOnceAtEnd ==
  /\ Cardinality(RejectIdx) = 1 /\ trace[Len(trace)].ev = "reject"
  /\ \A i \in Idx : trace[i].ev # "return"
  /\ FailIdx # {}
  /\ trace[LastFail].model = NumModels

\* C6 (as claimed): a run that yields no document rejects exactly once, after
\* the last model, with the message of the last failure of the run.
C6_RejectsWithLastMessage ==
  pc = "rejected" => (C6_RejectsOnceAtEnd /\ thrown = trace[LastFail].msg)

\* C6 (amended): ... with the message of the last failure of the run when
\* that message is not empty, and with the fixed text "AI processing failed.
\* Please use Manual Mode." when it is empty.
C6_RejectsWithLastMessageOrDefault ==
  /\ pc = "rejected" =>
       /\ C6_RejectsOnceAtEnd
       /\ thrown = IF trace[LastFail].msg # <<>> THEN trace[LastFail].msg
                   ELSE <<"AI processing failed.", "Please use Manual Mode.">>
  /\ pc # "rejected" => RejectIdx = {}

\* A rejected run in which the last failure differs from an earlier one and
\* an unparseable response was passed over on the way.
C6_Witness ==
  /\ pc = "rejected"
  /\ trace[LastFail].msg # <<>>
  /\ \E i \in FailIdx : trace[i].ev = "caught" /\ i < LastFail
                        /\ trace[i].msg # trace[LastFail].msg /\ trace[i].msg # <<>>
  /\ \E i \in FailIdx : trace[i].ev = "repairFailed" /\ trace[i].model = 1

SleepIdx == {i \in Idx : trace[i].ev = "sleep"}

\* C7: of two backoff sleeps after successive attempts of one model, the
\* later one is strictly longer.
C7_BackoffIncreases ==
  \A i, j \in SleepIdx :
    (trace[i].model = trace[j].model /\ trace[j].attempt = trace[i].attempt + 1) =>
      trace[j].ms > trace[i].ms

C7_Witness ==
  \E i, j \in SleepIdx :
    trace[i].model = trace[j].model /\ trace[j].attempt = trace[i].attempt + 1

\* C8: a backend failure without a rate-limit marker ends the attempt loop
\* of its model: no sleep follows it, and the next call, if any, is attempt 1
\* of the next model.
C8_NonRetryableBreaks ==
  \A i \in Idx :
    (trace[i].ev = "settle" /\ trace[i].kind = "error" /\ ~RateLimited(trace[i].msg)) =>
      /\ \A k \in SleepIdx : k > i => (NextCall(i) # 0 /\ k > NextCall(i))
      /\ LET n == NextCall(i) IN
         n # 0 => (trace[n].model = trace[i].model + 1 /\ trace[n].attempt = 1)
      /\ (i + 2 <= Len(trace)) => trace[i + 2].ev \in {"call", "reject"}

C8_Witness ==
  \E i \in Idx :
    /\ trace[i].ev = "settle" /\ trace[i].kind = "error" /\ ~RateLimited(trace[i].msg)
    /\ trace[i].model = 1 /\ trace[i].attempt = 1
    /\ NextCall(i) # 0

(***************************************************************************)
(* Properties of attemptJsonRepair                                         *)
(***************************************************************************)

\* C9 (as claimed): on every prefix of a well-formed JSON document the
\* repair is idempotent: repairing the repaired text changes nothing.
C9_RepairIdempotent ==
  rPhase = "twice" => rOut2 = rOut1

\* The cut fell inside a string that is the value of an object field.
InFieldValue(st) ==
  st.mode \in {"inStr", "inStrEsc"} /\ st.stack # <<>> /\ Last(st.stack) = "{"

\* C10 (as claimed): when the cut fell inside a string value, the repaired
\* text parses and the field being written holds exactly the characters of
\* the value that preceded the cut.
C10_RepairKeepsPrefix ==
  (rPhase # "streaming" /\ InFieldValue(jsonScan(rText))) =>
    /\ jsonParses(rOut1)
    /\ unescape(jsonScan(rOut1).str) = unescape(jsonScan(rText).str)

(***************************************************************************)
(* Properties of finalizeData                                              *)
(***************************************************************************)

\* The settlement the returned document was built from.
ReturnedFrom == CHOOSE i \in Idx : trace[i].ev = "settle" /\ i + 1 = Len(trace)

\* C11 (as claimed): a doi that the parsed object holds, non-empty and not
\* the literal "null", has the same value in the finalized document.
C11_FinalizeKeepsPopulatedDoi ==
  (pc = "returned" /\ trace[ReturnedFrom].doi \notin {"absent", "", "null"}) =>
     result.doi = trace[ReturnedFrom].doi

-----------------------------------------------------------------------------
\* Claims about the classification of a block.

\* The rules as the specification words them, on a markup-stripped, trimmed text.
MainHeadingRule(t) == textLen(t) < 100 /\ (numberedCaps(t) \/ allCaps(t))
SubHeadingRule(t) == textLen(t) < 100 /\ multiLevel(t)
EquationRule(t, limit) ==
  /\ 2 <= textLen(t)
  /\ textLen(t) < limit
  /\ hasMath(t)
  /\ ~startsFigureOrTable(t)
  /\ ~endsWithPeriod(t)
PlainText(s) == trimText(stripTags(s))
Blocks(r) == {r.blocks[i] : i \in 1..Len(r.blocks)}
TextBlocks(r) == {b \in Blocks(r) : b.b = "text"}
TextParagraphs(r) == {b \in Blocks(r) : b.p = "text"}
Kind(b) == CASE b.as = "h3" -> "main heading"
             [] b.as = "h4" -> "sub-heading"
             [] b.as \in {"eq", "keptEq"} -> "equation"
             [] OTHER -> "paragraph"

\* C16: a block under 100 characters that meets the main-heading rule is shown
\* as a heading without equation treatment, and is exported as a heading
\* without equation treatment, even when it contains a math symbol.
C16_HeadingBeatsEquation ==
  /\ \A b \in TextBlocks(cPlain) \cup TextBlocks(cMarkup) :
       MainHeadingRule(b.clean) => Kind(b) = "main heading"
  /\ \A q \in TextParagraphs(cDocx) :
       MainHeadingRule(trimText(q.text))
         => q.bold /\ ~q.italics /\ q.font # "Cambria Math" /\ q.alignment # "CENTER"

\* C17: two blocks with the same plain text get the same block kind, whether
\* the content was split on paragraph markup or on blank-line runs.
C17_SameKindInBothSplits ==
  \A b1 \in TextBlocks(cPlain) : \A b2 \in TextBlocks(cMarkup) :
    b1.clean = b2.clean => Kind(b1) = Kind(b2)

\* C18 as stated: isEquation(t) is true exactly when the stripped, trimmed text
\* has length in [2, 150), has a math symbol, does not start with Figure or
\* Table and does not end with a period.
C18_EquationHalfOpen ==
  cIsEq # "unset" => ((cIsEq = "true") <=> EquationRule(PlainText(cText), 150))

\* C18 amended: isEquation(t) is true exactly when the stripped, trimmed text
\* has length in [2, 150], has a math symbol, does not start with Figure or
\* Table in any letter case, and does not end with a period.
C18_EquationClosed ==
  cIsEq # "unset" => ((cIsEq = "true") <=> EquationRule(PlainText(cText), 151))

\* A text of exactly 150 characters has been found to be an equation.
C18_Witness == cIsEq = "true" /\ textLen(PlainText(cText)) = 150

\* C19: a block with table markup that meets no heading or equation rule is
\* written out with its table markup intact, in both splitting modes.
HasTable(s) == \E i, j \in 1..Len(s) : i < j /\ s[i].t = "<table>" /\ s[j].t = "</table>"
C19_TableMarkupKept ==
  \A r \in {cPlain, cMarkup} :
    (/\ r.done
     /\ HasTable(cText)
     /\ PlainText(cText) # <<>>
     /\ ~MainHeadingRule(PlainText(cText))
     /\ ~SubHeadingRule(PlainText(cText))
     /\ ~EquationRule(PlainText(cText), 150))
    => HasTable(htmlOf(r.blocks))

-----------------------------------------------------------------------------
\* Claims about figures in the preview and in the exported file.

RECURSIVE Flat(_)
Flat(ss) == IF ss = <<>> THEN <<>> ELSE Head(ss) \o Flat(Tail(ss))
\* The preview as one sequence of text and figure blocks.
ScreenBlocks == Flat(screen.sections)
\* The export body as one sequence of text and figure blocks: an image
\* paragraph and its caption paragraph are one figure block.
FileBlocks ==
  LET kept == SelectSeq(file.body, LAMBDA q : q.p # "caption")
  IN [i \in 1..Len(kept) |->
        [b |-> IF kept[i].p = "image" THEN "figure" ELSE "text",
         clean |-> kept[i].text, fig |-> kept[i].fig]]
Outputs == {ScreenBlocks, FileBlocks}

CitedIn(t) == {citations(t, 1)[k] : k \in 1..Len(citations(t, 1))}
Cites(blk, d) == blk.b = "text" /\ d \in CitedIn(blk.clean)
PlacedOnce(bs) ==
  \A i, j \in 1..Len(bs) :
    (bs[i].b = "figure" /\ bs[j].b = "figure" /\ bs[i].fig = bs[j].fig) => i = j
\* The figure block at k comes right after the first block citing its id.
DirectlyAfterFirstCitation(bs, k) ==
  /\ k > 1
  /\ Cites(bs[k - 1], bs[k].fig)
  /\ \A j \in 1..(k - 2) : ~Cites(bs[j], bs[k].fig)
\* The figure block at k comes after the first block citing its id, with
\* nothing but figure blocks between the two.
AfterFirstCitation(bs, k) ==
  \E t \in 1..(k - 1) :
    /\ Cites(bs[t], bs[k].fig)
    /\ \A j \in (t + 1)..(k - 1) : bs[j].b = "figure"
    /\ \A j \in 1..(t - 1) : ~Cites(bs[j], bs[k].fig)

\* C12 as stated: in every output each figure id is in at most one figure
\* block, and that block directly follows the text block with the first
\* citation of the id in document order (the placed set is kept from section
\* to section).
C12_PlacedOnceDirectlyAfter ==
  \A bs \in Outputs :
    /\ PlacedOnce(bs)
    /\ \A k \in 1..Len(bs) : bs[k].b = "figure" => DirectlyAfterFirstCitation(bs, k)

\* C12 amended: in every output each figure id is in at most one figure block,
\* and that block follows the text block with the first citation of the id in
\* document order, separated from it only by the figure blocks of other ids
\* cited in the same text block.
C12_PlacedOnceAfterFirstCitation ==
  \A bs \in Outputs :
    /\ PlacedOnce(bs)
    /\ \A k \in 1..Len(bs) : bs[k].b = "figure" => AfterFirstCitation(bs, k)

\* Two sections cite the same figure, which the preview and the file show.
C12_Witness ==
  /\ Len(screen.sections) = 2
  /\ file.made /\ ~file.crashed
  /\ \E k \in 1..Len(screen.sections[1]) :
       /\ screen.sections[1][k].b = "figure"
       /\ \E j \in 1..Len(screen.sections[2]) :
            Cites(screen.sections[2][j], screen.sections[1][k].fig)
       /\ \E j \in 1..Len(FileBlocks) :
            FileBlocks[j].b = "figure" /\ FileBlocks[j].fig = screen.sections[1][k].fig

\* The ids cited somewhere in the stored sections.
CitedIds == UNION {CitedIn(PlainText(sections[i])) : i \in 1..Len(sections)}
\* The figures of the list whose id no section cites, in list order.
UncitedFigures == SelectSeq(figures, LAMBDA f : ~f.undef /\ f.id \notin CitedIds)

\* C13: the figures whose id no section cites make up the trailing block of
\* the preview, and of every exported file, each once and in figure-list
\* order, whatever add, remove and move operations led to the document.
C13_UncitedFiguresTrail ==
  /\ screen.remaining = UncitedFigures
  /\ file.made => file.remaining = UncitedFigures

\* The ids of the figure blocks emitted right after the text block at k.
RECURSIVE FigRun(_, _)
FigRun(bs, k) ==
  IF k + 1 <= Len(bs) /\ bs[k + 1].b = "figure"
  THEN <<bs[k + 1].fig>> \o FigRun(bs, k + 1)
  ELSE <<>>
RECURSIVE FirstOccurrences(_, _)
FirstOccurrences(ds, seen) ==
  IF ds = <<>> THEN <<>>
  ELSE IF Head(ds) \in seen THEN FirstOccurrences(Tail(ds), seen)
       ELSE <<Head(ds)>> \o FirstOccurrences(Tail(ds), seen \cup {Head(ds)})
FigureIds == {figures[i].id : i \in 1..Len(figures)}
PlacedBefore(bs, k) == {bs[j].fig : j \in {i \in 1..(k - 1) : bs[i].b = "figure"}}
\* The citations of the text block at k, left to right, that are not placed
\* before it and have a Figure entry.
Placeable(bs, k) ==
  FirstOccurrences(SelectSeq(citations(bs[k].clean, 1), LAMBDA d : d \in FigureIds),
                   PlacedBefore(bs, k))

FirstOf(ds) == IF ds = <<>> THEN <<>> ELSE <<Head(ds)>>

\* C14 as stated: after a text block the preview emits a figure block only
\* for the first unplaced citation of the block that has a Figure entry.
C14_OnlyFirstCitationPlaced ==
  \A k \in 1..Len(ScreenBlocks) :
    ScreenBlocks[k].b = "text"
      => FigRun(ScreenBlocks, k) = FirstOf(Placeable(ScreenBlocks, k))

\* C14 amended: after a text block the preview emits a figure block for every
\* unplaced citation of the block that has a Figure entry, in citation order.
C14_EveryCitationPlaced ==
  \A k \in 1..Len(ScreenBlocks) :
    ScreenBlocks[k].b = "text"
      => FigRun(ScreenBlocks, k) = Placeable(ScreenBlocks, k)

\* A text block is followed by the figure blocks of two citations.
C14_Witness ==
  \E k \in 1..Len(ScreenBlocks) :
    ScreenBlocks[k].b = "text" /\ Len(FigRun(ScreenBlocks, k)) = 2

\* C15: no stored section content holds markup that injectFigures generated.
GeneratedTags == {"<h3 class=font-bold>", "<h4 class=font-bold>", "<div class=text-center>",
                  "<div class=figure-container>", "<p class=indent-1cm>", "<p class=text-center>"}
C15_OutputNeverStored ==
  \A i \in 1..Len(sections) : \A k \in 1..Len(sections[i]) : sections[i][k].t \notin GeneratedTags

-----------------------------------------------------------------------------
\* Claims about the validation report.

WordSet(text) == {getWords(text)[i] : i \in 1..Len(getWords(text))}
\* Every normalized token of the original is a normalized token of the
\* generated document.
AllCovered == WordSet(original) \subseteq WordSet(generatedContentOf(generated))

\* C20 as stated: coveragePercent is an integer from 0 to 100, and it is 100
\* whenever every normalized token of the original occurs in the generated
\* document, also when the original has no token longer than 2 characters.
C20_CoverageBounds ==
  validationStats.set =>
    /\ validationStats.coveragePercent \in 0..100
    /\ AllCovered => validationStats.coveragePercent = 100

\* C20 amended: coveragePercent is an integer from 0 to 100; it is 100 whenever
\* the original has at least one normalized token and every one occurs in the
\* generated document; it is 0 when the original has no normalized token.
C20_CoverageBoundsNonEmpty ==
  validationStats.set =>
    /\ validationStats.coveragePercent \in 0..100
    /\ (WordSet(original) # {} /\ AllCovered) => validationStats.coveragePercent = 100
    /\ WordSet(original) = {} => validationStats.coveragePercent = 0

\* A report on an original whose pieces are all too short to be tokens,
\* against a generated document that has tokens.
C20_Witness ==
  /\ validationStats.set
  /\ original # <<>>
  /\ WordSet(original) = {}
  /\ WordSet(generatedContentOf(generated)) # {}
  /\ validationStats.coveragePercent = 0

(***************************************************************************)
(* Properties of the session                                               *)
(***************************************************************************)
\* The status that the rule of the report assigns to its figures.
RuleStatus(r) ==
  IF r.coveragePercent < 80 \/ 10 * r.generatedWordCount < 7 * r.originalWordCount
       \/ Cardinality(r.missingSections) > 2
  THEN "danger"
  ELSE IF r.coveragePercent < 95 \/ 10 * r.generatedWordCount < 9 * r.originalWordCount
            \/ r.missingSections # {} \/ r.formattingIssues # {}
  THEN "warning" ELSE "success"

\* C21: the stored report always carries the status its own figures give by
\* the rule: danger below 80 % coverage, below 0.7 of the original word count
\* or with more than two sections missing; else warning below 95 %, below 0.9,
\* with a section missing or an issue listed; else success.
C21_StatusFollowsRule ==
  validationStats.set => validationStats.status = RuleStatus(validationStats)

\* C22: when parseManuscript resolves with a document, processManuscript
\* stores a report and shows the review screen; the validator never turns
\* the extraction into a failed one.
C22_ValidatorNeverThrows ==
  [][\A t \in BagToSet(pending), out \in Outcomes :
       (out.returned /\ parseSettled(t, out))
         => (appState' = "METADATA_REVIEW" /\ validationStats'.set /\ error' = error)]_vars

\* The stored report is the one runValidation gives for the original text
\* and the live document.
Fresh == validationStats = runValidation(original, manuscriptData)

\* C23: an edit of the live document leaves the stored report equal to the
\* one runValidation computes from the original text and the edited document.
C23_ReportFollowsEdits ==
  [][(manuscriptData.set /\ manuscriptData'.set /\ manuscriptData' # manuscriptData
        /\ pending' = pending /\ Fresh) => Fresh']_vars

Extractions == {t \in BagToSet(pending) : t.kind = "extract"}

\* C24: at most one extraction is pending at any time.
C24_OneExtractionPending ==
  /\ Cardinality(Extractions) <= 1
  /\ \A t \in Extractions : CopiesIn(t, pending) = 1

\* C25: when parseManuscript rejects, processManuscript ends on the upload
\* screen with a non-empty error message and leaves manuscriptData as it was.
C25_RejectionReturnsToUpload ==
  [][\A t \in BagToSet(pending), out \in Outcomes :
       (~out.returned /\ parseSettled(t, out))
         => /\ appState' = "UPLOAD"
            /\ error'.defined /\ error'.message # <<>>
            /\ manuscriptData' = manuscriptData]_vars

\* A later extraction was rejected while the document of an earlier one is
\* the live document.
C25_Witness ==
  appState = "UPLOAD" /\ error = Err(TooLongMsg) /\ manuscriptData.set

\* C28: the figures handed over by handleFileUpload carry the ids 1, 2, ..., n
\* in document order.
C28_SequentialFigureIds ==
  \A t \in Extractions : \A k \in 1..Len(t.figures) : t.figures[k].id = k

(***************************************************************************)
(* Properties of the front matter                                          *)
(***************************************************************************)
\* The lines of a text: the runs between line feeds.
LinesOf(text) ==
  LET breaks == {i \in 1..Len(text) : text[i] = "\n"}
      starts == {1} \cup {i + 1 : i \in breaks}
      endOf(a) == IF \E i \in breaks : i >= a
                  THEN (CHOOSE i \in breaks : i >= a /\ \A j \in breaks : j >= a => i <= j) - 1
                  ELSE Len(text)
      nth(k) == CHOOSE a \in starts : Cardinality({b \in starts : b < a}) = k - 1
  IN [k \in 1..Cardinality(starts) |-> SubSeq(text, nth(k), endOf(nth(k)))]
\* Lines joined by blank lines.
RECURSIVE BlankJoined(_)
BlankJoined(ls) ==
  IF Len(ls) <= 1 THEN (IF ls = <<>> THEN <<>> ELSE ls[1])
  ELSE ls[1] \o <<"\n", "\n">> \o BlankJoined(Tail(ls))
IsManualDoc(doc, title, body) ==
  /\ doc.title = title
  /\ Len(doc.sections) = 1
  /\ doc.sections[1].content = body

\* C26: the title is the first non-empty line of the text and the one section
\* holds all the remaining non-empty lines, in order, joined by blank lines.
C26_TitleAndBodyFromLines ==
  manualDoc.set =>
    LET lines == SelectSeq(LinesOf(manualText), LAMBDA l : l # <<>>)
    IN /\ lines # <<>>
       /\ IsManualDoc(manualDoc, lines[1], BlankJoined(Tail(lines)))

\* The text as createManualManuscript reads it: each tag counts as a line
\* feed and the whitespace around the whole text does not count; a line is
\* blank when it holds nothing but blanks.
TagsAsBreaks(text) == [i \in 1..Len(text) |-> IF text[i] = "<b>" THEN "\n" ELSE text[i]]
NonBlankLines(text) ==
  SelectSeq(LinesOf(trim(TagsAsBreaks(text))), LAMBDA l : \E i \in 1..Len(l) : l[i] # " ")

\* C26 as amended: with tags read as line feeds, the text trimmed and blank
\* lines dropped, the title is the first line, or "Untitled Manuscript" when
\* there is none; the one section holds the remaining lines joined by blank
\* lines, or the placeholder sentence when there are none.
C26_TitleAndBodyOrDefaults ==
  manualDoc.set =>
    LET lines == NonBlankLines(manualText)
    IN IsManualDoc(manualDoc,
         IF lines # <<>> THEN lines[1] ELSE <<"Untitled Manuscript">>,
         IF Len(lines) > 1 THEN BlankJoined(Tail(lines))
         ELSE <<"Paste your manuscript content here...">>)

\* A text of three lines has gone through manual mode.
C26_Witness ==
  manualDoc.set /\ Len(NonBlankLines(manualText)) = 3

\* C27: in every render the number of distinct affiliation indices is the
\* number of distinct affiliation strings, two authors share an index exactly
\* when their strings are equal, and every render gives the same indices.
C27_AffiliationIndices ==
  \A r \in 1..Len(affIndices) :
    /\ affIndices[r] = affIndices[1]
    /\ \A view \in {affIndices[r].layout, affIndices[r].article} :
         /\ Len(view) = Len(authors)
         /\ Cardinality({view[i] : i \in 1..Len(view)})
              = Cardinality({authors[i] : i \in 1..Len(authors)})
         /\ \A i, j \in 1..Len(authors) : (view[i] = view[j]) <=> (authors[i] = authors[j])

\* Two renders of three authors, two of one affiliation and one of its
\* lower-case spelling.
C27_Witness ==
  /\ Len(affIndices) = 2
  /\ Len(authors) = 3
  /\ authors[1] = "Univ A" /\ authors[2] = "univ a" /\ authors[3] = "Univ A"

\* C29: every document parseManuscript returns has at least one author.
C29_ReturnedHasAuthors ==
  pc = "returned" => "authors" \in (result.present \cup result.placeholder)

(***************************************************************************)
(* attemptJsonRepair against the single-pass scan                          *)
(***************************************************************************)
\* One pass over s from position i: a backslash escapes the next character,
\* an unescaped quote enters or leaves a string, an opener outside a string
\* is pushed and leaves the stack when its closer is met outside a string.
RECURSIVE SinglePass(_, _, _, _, _)
SinglePass(s, i, inString, escaped, openers) ==
  IF i > Len(s) THEN [inString |-> inString, openers |-> openers]
  ELSE IF escaped THEN SinglePass(s, i + 1, inString, FALSE, openers)
  ELSE IF s[i] = "\\" THEN SinglePass(s, i + 1, inString, TRUE, openers)
  ELSE IF s[i] = "\"" THEN SinglePass(s, i + 1, ~inString, FALSE, openers)
  ELSE IF inString THEN SinglePass(s, i + 1, inString, FALSE, openers)
  ELSE IF s[i] \in {"{", "["} THEN SinglePass(s, i + 1, inString, FALSE, Append(openers, s[i]))
  ELSE IF openers # <<>> /\ <<openers[Len(openers)], s[i]>> \in {<<"{", "}">>, <<"[", "]">>}
       THEN SinglePass(s, i + 1, inString, FALSE, SubSeq(openers, 1, Len(openers) - 1))
  ELSE SinglePass(s, i + 1, inString, FALSE, openers)
\* The input trimmed, one quote if the pass ends inside a string, then the
\* closers of the open openers, innermost first.
Closed(s) ==
  LET end == SinglePass(trim(s), 1, FALSE, FALSE, <<>>)
      n == Len(end.openers)
  IN trim(s) \o (IF end.inString THEN <<"\"">> ELSE <<>>)
       \o [k \in 1..n |-> IF end.openers[n + 1 - k] = "{" THEN "}" ELSE "]"]

\* C30: attemptJsonRepair returns what the single-pass scan gives: the
\* trimmed input, unchanged, followed by one quote iff the scan ends inside a
\* string and by one closer per open brace or bracket, innermost first.
C30_RepairIsSinglePass ==
  /\ rPhase # "streaming" => rOut1 = Closed(rText)
  /\ rPhase = "twice" => rOut2 = Closed(rOut1)

\* A text with an escape that ends inside a string, below an open opener.
C30_Witness ==
  /\ rPhase = "once"
  /\ \E i \in 1..Len(rText) : rText[i] = "\\"
  /\ Len(rOut1) >= Len(trim(rText)) + 2
  /\ SinglePass(trim(rText), 1, FALSE, FALSE, <<>>).inString


(***************************************************************************)
(* Termination of parseManuscript                                          *)
(***************************************************************************)
\* C31: when every backend call and every sleep settles, a run ends, by
\* returning a document or by rejecting, and at no time has it issued more
\* than |modelsToTry| x MaxAttempts backend calls (4).
C31_TerminatesWithinCalls ==
  /\ <>(pc \in {"returned", "rejected"})
  /\ [](Cardinality(CallIdx) <= NumModels * MaxAttempts)

\* A run that used every call it may issue and then rejected.
C31_Witness ==
  /\ pc = "rejected"
  /\ Cardinality(CallIdx) = NumModels * MaxAttempts
  /\ \A i \in Idx : trace[i].ev = "settle" => trace[i].kind = "error"

(***************************************************************************)
(* The session across Home and Logout                                      *)
(***************************************************************************)
\* C32: the extraction that was pending when Home was pressed settles, by
\* resolving or by rejecting, while the live document is one produced since
\* then from another text, by a newer extraction or by manual mode; the
\* step leaves manuscriptData, error, validationStats and appState as they
\* are.
C32_LateSettlementIgnored ==
  [][\A out \in Outcomes :
       (/\ parseSettled(EarlierExtraction, out)
        /\ manuscriptData.set /\ original # EarlierText) =>
         UNCHANGED <<manuscriptData, error, validationStats, appState>>]_vars

\* C33: nobody signed in means the login screen and no document: appState
\* other than LOGIN implies a non-empty currentUser, and manuscriptData is
\* null while currentUser is empty.
C33_SignedOutShowsNothing ==
  /\ appState # "LOGIN" => currentUser # ""
  /\ currentUser = "" => ~manuscriptData.set

(***************************************************************************)
(* The figure list under add, remove and move                              *)
(***************************************************************************)
\* C34: the ids of the figures in manuscriptData.figures are pairwise
\* distinct (so that removing by id removes one figure and a citation number
\* names at most one figure).
C34_FigureIdsDistinct ==
  \A i, j \in 1..Len(figures) :
    (i # j /\ figures[i] # NoFigure /\ figures[j] # NoFigure) => figures[i].id # figures[j].id

\* The list with the entries at index and at its neighbour in the given
\* direction exchanged, the list itself when there is no such neighbour.
Exchanged(fs, index, direction) ==
  LET other == IF direction = "up" THEN index - 1 ELSE index + 1 IN
  IF other \in 1..Len(fs)
  THEN [fs EXCEPT ![index] = fs[other], ![other] = fs[index]]
  ELSE fs

\* C35: a step of handleUpdateFigureOrder(index, direction) leaves the list
\* with the figure at index and its neighbour exchanged, or unchanged when
\* the move would leave the list: the same figures, each once, none undefined.
C35_MoveIsExchange ==
  [][\A index \in 1..Len(figures), direction \in {"up", "down"} :
       (MoveFigure /\ figures' = handleUpdateFigureOrder(figures, index, direction)) =>
         figures' = Exchanged(figures, index, direction)]_vars

(***************************************************************************)
(* Figure files read in the background                                     *)
(***************************************************************************)
\* C36: the onload of a figure file loses nothing: it leaves the sections as
\* they are at that moment and appends one figure to the figure list as it
\* is at that moment (so an edit made since the file was chosen stays, and
\* of two files chosen before either is read both figures end up in the list).
C36_UploadKeepsEdits ==
  [][FigureLoaded =>
       /\ sections' = sections
       /\ Len(figures') = Len(figures) + 1
       /\ SubSeq(figures', 1, Len(figures)) = figures]_vars

(***************************************************************************)
(* The ArticleData editor's figure ids                                     *)
(***************************************************************************)
\* C37: across handleFigureUpload and removeFigure a figure that stays in
\* the list keeps its id (so a reference figure-k in the content names the
\* same file afterwards, or no figure when that one was removed).
C37_FigureKeepsId ==
  [][\A i \in 1..Len(dataFigures), j \in 1..Len(dataFigures') :
       dataFigures[i].file = dataFigures'[j].file => dataFigures[i].id = dataFigures'[j].id]_vars

(***************************************************************************)
(* The body loop of generateDocx                                           *)
(***************************************************************************)
\* The lines of the content as the loop reads them, blank ones left out.
NonBlank == SelectSeq([k \in 1..Len(docLines) |-> trim(docLines[k])], LAMBDA l : l # <<>>)
\* The lines the emitted blocks were built from, block after block.
EmittedLines == Flat([k \in 1..Len(contentChildren) |-> contentChildren[k].lines])

\* C38: when the loop and the final flush have run, the blocks emitted are
\* built from the non-blank lines of the content, each line in exactly one
\* block and in input order, and paragraphBuffer and tableBuffer are empty
\* and inTable is false.
C38_EveryLineEmitted ==
  finished =>
    /\ EmittedLines = NonBlank
    /\ paragraphBuffer = <<>> /\ tableBuffer = <<>> /\ ~inTable

\* A line that is neither a heading, nor a table row, nor an image
\* reference, nor a formula, nor blank.
IsPlainText(l) ==
  /\ l # <<>>
  /\ Head(l) \notin {"# ", "## ", "### "}
  /\ ~(Has(l, "|") /\ length(l) > 3)
  /\ \A k \in 1..Len(l) : l[k] \notin {"![a](figure-1)", "![a](figure-2)", "![a](figure-3)", "![a](figure-9)"}
  /\ ~(Head(l) = "$$" /\ l[Len(l)] = "$$")
IsReferencesHeading(l) ==
  l # <<>> /\ Head(l) \in {"# ", "## ", "### "} /\ (Has(l, "REFERENCES") \/ Has(l, "DAFTAR PUSTAKA"))

\* C39: a heading line that names the references sets inReferences, once
\* set it stays set at every later line, also at later headings, and a
\* plain-text line read while it is set is emitted at once as a paragraph of
\* that line alone.
C39_ReferencesStayOn ==
  [][ProcessLine =>
       LET l == trim(docLines[lineNo]) IN
       /\ IsReferencesHeading(l) => inReferences'
       /\ inReferences => inReferences'
       /\ (inReferences /\ IsPlainText(l)) =>
            /\ Len(contentChildren') > Len(contentChildren)
            /\ contentChildren'[Len(contentChildren')].kind = "paragraph"
            /\ contentChildren'[Len(contentChildren')].lines = <<l>>
            /\ paragraphBuffer' = <<>>]_vars

\* The references heading, a later heading, then a plain line: three blocks,
\* the last one the paragraph of that line.
C39_Witness ==
  /\ finished
  /\ docLines = << <<"## ", "REFERENCES">>, <<"# ", "Intro">>, <<"cat">> >>
  /\ Len(contentChildren) = 3
====
